---- MODULE Spec2Model ----
(***************************************************************************)
(* A model of the visual SVM playground: the page component Index (its     *)
(* state, its training effect and its renders), the engine SimpleSVMEngine *)
(* (train, findSupportVectors, predict, calculateMetrics) and the boundary *)
(* geometry of SVMVisualization (getDecisionBoundaryLine, getMarginLines). *)
(*                                                                         *)
(* JavaScript numbers are modelled as extended rationals <<n, d>>:         *)
(*   d > 0      the finite value n/d, in lowest terms                      *)
(*   <<0, 0>>   NaN                                                        *)
(*   <<1, 0>>   +Infinity          <<-1, 0>>  -Infinity                    *)
(* Arithmetic follows IEEE-754 on these values except that zero has no     *)
(* sign and that a result is exact as long as its numerator and            *)
(* denominator fit the 32-bit integers of TLC; a result that does not fit  *)
(* is rounded down to the precision of its magnitude (Precision), as are   *)
(* the results of Math.sqrt, Math.exp, Math.tanh and Math.sin.             *)
(*                                                                         *)
(* Math.random() is a sequence fixed by the seed of the page load, in      *)
(* steps of 1 / RandSteps; the coordinates of the catalog are integers.    *)
(*                                                                         *)
(* A render records in the variable view the props SVMVisualization and    *)
(* ModelSummary get, the boundary line and the margin of the linear        *)
(* kernel; the render RenderCurves records the curve of the kernel and the *)
(* contour of the negative class as well.  The switches of                 *)
(* SVMVisualization are not part of the model; showMargins is on, as after *)
(* the mount.  The inspected point is the variable selectedPoint.          *)
(***************************************************************************)
EXTENDS Integers, Sequences, FiniteSets, TLC

----------------------------------------------------------------------------
(* JavaScript number arithmetic *)

Abs(i) == IF i < 0 THEN -i ELSE i

Sgn(i) == IF i > 0 THEN 1 ELSE IF i < 0 THEN -1 ELSE 0

Min2(a, b) == IF a <= b THEN a ELSE b

Max2(a, b) == IF a >= b THEN a ELSE b

RECURSIVE GCD(_, _)
GCD(a, b) == IF b = 0 THEN a ELSE GCD(b, a % b)

\* the one element of a set of one element: Only({e(x) : x \in {v}}) is e for
\* the local constant x of value v
Only(S) == CHOOSE x \in S : TRUE

Rat(n, d) ==
  Only({IF d > 0 THEN <<n \div g, d \div g>> ELSE <<(-n) \div g, (-d) \div g>> :
          g \in {GCD(Abs(n), Abs(d))}})

Num(i) == <<i, 1>>

NaN == <<0, 0>>

Infinity == <<1, 0>>

NegInfinity == <<-1, 0>>

IsNaN(a) == a = NaN

IsFinite(a) == a[2] > 0

JSign(a) == Sgn(a[1])

JNeg(a) == <<-a[1], a[2]>>

JAbs(a) == <<Abs(a[1]), a[2]>>

\* the number of sign s and magnitude v
Signed(s, v) == <<s * v[1], v[2]>>

\* numbers of the form k / FixScale stand for the rounded results
FixScale == 10000

\* the largest integer of TLC
MaxInt == 2147483647

\* x * y is at most MaxInt \div 4 in absolute value
Fits(x, y) == y = 0 \/ Abs(x) <= (MaxInt \div 4) \div Abs(y)

\* <<q, r>> with x * y = q * d + r and 0 <= r < d, for x, y >= 0 and d > 0;
\* by doubling, without the product, where the product is too large
RECURSIVE MulDiv(_, _, _)
MulDiv(x, y, d) ==
  IF y = 0 THEN <<0, 0>>
  ELSE IF Fits(x, y) THEN <<(x * y) \div d, (x * y) % d>>
  ELSE Only({Only({<<2 * h[1] + (y % 2) * (x \div d) + r \div d, r % d>> :
                      r \in {2 * h[2] + (y % 2) * (x % d)}}) :
               h \in {MulDiv(x, y \div 2, d)}})

\* the denominator a rounded result of integer part q is given: the larger
\* the number, the fewer decimals it keeps
Precision(q) == IF q < 50000 THEN FixScale ELSE IF q < 5000000 THEN 100 ELSE 1

\* the number q + f / d (q, f >= 0, d > 0) rounded down to its precision
Rounded(q, f, d) ==
  Only({Rat(q * p + MulDiv(f, p, d)[1], p) : p \in {Precision(q)}})

\* a finite v >= 0 with a denominator of at most FixScale
Round(v) ==
  IF v[2] <= FixScale THEN v ELSE Rounded(v[1] \div v[2], v[1] % v[2], v[2])

\* a finite v as a multiple of 1 / FixScale, rounded down
ToFix(v) ==
  (v[1] \div v[2]) * FixScale + MulDiv(v[1] % v[2], FixScale, v[2])[1]

\* x + s * y, rounded, for two rounded numbers: x, y >= 0 and s = 1, or
\* x >= y >= 0 and s = -1
SumRounded(x, y, s) ==
  Only({Only({Rounded(IF f >= 0 THEN q ELSE q - 1, IF f >= 0 THEN f ELSE f + l, l) :
                 q \in {x[1] \div x[2] + s * (y[1] \div y[2])},
                 f \in {(x[1] % x[2]) * (l \div x[2]) + s * (y[1] % y[2]) * (l \div y[2])}}) :
          l \in {(x[2] \div GCD(x[2], y[2])) * y[2]}})

\* a * b for finite a, b >= 0, rounded
MulRounded(a, b) ==
  Only({Only({Rounded(m[1], m[2], x[2] * y[2]) :
                 m \in {MulDiv(x[1], y[1], x[2] * y[2])}}) :
          x \in {Round(a)}, y \in {Round(b)}})

\* the sign of n1/d1 - n2/d2 for d1, d2 > 0, by Euclid's algorithm: no product
\* of a numerator and a denominator is formed
RECURSIVE CmpFrac(_, _, _, _)
CmpFrac(n1, d1, n2, d2) ==
  IF n1 \div d1 # n2 \div d2 THEN Sgn((n1 \div d1) - (n2 \div d2))
  ELSE IF n1 % d1 = 0 \/ n2 % d2 = 0 THEN Sgn((n1 % d1) - (n2 % d2))
  ELSE CmpFrac(d2, n2 % d2, d1, n1 % d1)

\* a + b rounded: the sum of two magnitudes of the same sign, or the larger
\* less the smaller magnitude, with the sign of the result
RoundedSum(a, b, same, aLarger) ==
  Only({Signed(IF same THEN (IF a[1] < 0 THEN -1 ELSE 1) ELSE JSign(big),
               SumRounded(Round(JAbs(big)), Round(JAbs(small)), IF same THEN 1 ELSE -1)) :
          big \in {IF same \/ aLarger THEN a ELSE b},
          small \in {IF same \/ aLarger THEN b ELSE a}})

JAdd(a, b) ==
  IF IsNaN(a) \/ IsNaN(b) THEN NaN
  ELSE IF ~IsFinite(a) THEN (IF ~IsFinite(b) /\ a # b THEN NaN ELSE a)
  ELSE IF ~IsFinite(b) THEN b
  ELSE IF a[2] = 1 /\ b[2] = 1 /\ Fits(a[1], 2) /\ Fits(b[1], 2)
  THEN <<a[1] + b[1], 1>>
  ELSE Only({IF Fits(a[2] \div g, b[2]) /\ Fits(a[1], b[2] \div g) /\ Fits(b[1], a[2] \div g)
             THEN Rat(a[1] * (b[2] \div g) + b[1] * (a[2] \div g), (a[2] \div g) * b[2])
             ELSE RoundedSum(a, b, (a[1] >= 0) = (b[1] >= 0),
                             CmpFrac(Abs(a[1]), a[2], Abs(b[1]), b[2]) >= 0) :
               g \in {GCD(a[2], b[2])}})

JSub(a, b) == JAdd(a, JNeg(b))

JMul(a, b) ==
  IF IsNaN(a) \/ IsNaN(b) THEN NaN
  ELSE IF ~IsFinite(a) \/ ~IsFinite(b)
       THEN (IF a[1] = 0 \/ b[1] = 0 THEN NaN ELSE <<JSign(a) * JSign(b), 0>>)
  ELSE IF a[2] = 1 /\ b[2] = 1 /\ Fits(a[1], b[1])
  THEN <<a[1] * b[1], 1>>
  ELSE Only({IF Fits(a[1] \div g1, b[1] \div g2) /\ Fits(a[2] \div g2, b[2] \div g1)
             THEN <<(a[1] \div g1) * (b[1] \div g2), (a[2] \div g2) * (b[2] \div g1)>>
             ELSE Signed(JSign(a) * JSign(b), MulRounded(JAbs(a), JAbs(b))) :
               g1 \in {GCD(Abs(a[1]), b[2])}, g2 \in {GCD(Abs(b[1]), a[2])}})

JDiv(a, b) ==
  IF IsNaN(a) \/ IsNaN(b) THEN NaN
  ELSE IF ~IsFinite(b) THEN (IF ~IsFinite(a) THEN NaN ELSE Num(0))
  ELSE IF b[1] = 0 THEN (IF a[1] = 0 THEN NaN ELSE <<JSign(a), 0>>)
  ELSE JMul(a, IF b[1] > 0 THEN <<b[2], b[1]>> ELSE <<-b[2], -b[1]>>)

\* the sign of a - b for two numbers that are not NaN
JCmp(a, b) ==
  IF ~IsFinite(a) \/ ~IsFinite(b)
  THEN Sgn((IF IsFinite(a) THEN 0 ELSE a[1]) - (IF IsFinite(b) THEN 0 ELSE b[1]))
  ELSE CmpFrac(a[1], a[2], b[1], b[2])

JLt(a, b) == ~IsNaN(a) /\ ~IsNaN(b) /\ JCmp(a, b) < 0

JLe(a, b) == ~IsNaN(a) /\ ~IsNaN(b) /\ JCmp(a, b) <= 0

JGe(a, b) == JLe(b, a)

JGt(a, b) == JLt(b, a)

\* Math.max(a, b) and Math.min(a, b)
JMax(a, b) == IF IsNaN(a) \/ IsNaN(b) THEN NaN ELSE IF JGe(a, b) THEN a ELSE b

JMin(a, b) == IF IsNaN(a) \/ IsNaN(b) THEN NaN ELSE IF JLe(a, b) THEN a ELSE b

\* v without the || 0
OrZeroOmitted(v) == v

\* v || 0 : NaN and 0 are falsy
OrZero(v) == IF IsNaN(v) \/ v = Num(0) THEN Num(0) ELSE v

\* Math.floor of a finite number
JFloor(a) == a[1] \div a[2]

\* Math.floor(n * (num / den)) for a length n: the products of a length with
\* 0.15, 0.2, 0.25 and 0.3 are exact enough in double precision for the floor
\* to be that of the exact product
FloorMul(n, num, den) == (n * num) \div den

----------------------------------------------------------------------------
(* Math.sqrt, Math.exp, Math.tanh, Math.sin *)

\* the largest t in lo..hi-1 with t * t <= n, given lo * lo <= n < hi * hi
RECURSIVE ISqrtSearch(_, _, _)
ISqrtSearch(n, lo, hi) ==
  IF hi - lo <= 1 THEN lo
  ELSE LET mid == (lo + hi) \div 2
       IN  IF mid * mid <= n THEN ISqrtSearch(n, mid, hi) ELSE ISqrtSearch(n, lo, mid)

ISqrt(n) == ISqrtSearch(n, 0, Min2(n + 1, 46341))

\* the largest t in lo..hi-1 with (t / FixScale)^2 <= v
RECURSIVE SqrtSearch(_, _, _)
SqrtSearch(v, lo, hi) ==
  IF hi - lo <= 1 THEN lo
  ELSE LET mid == (lo + hi) \div 2
       IN  IF CmpFrac(mid * mid, FixScale * FixScale, v[1], v[2]) <= 0
           THEN SqrtSearch(v, mid, hi) ELSE SqrtSearch(v, lo, mid)

\* Math.sqrt: exact on squares of rationals, rounded down otherwise to a
\* multiple of 1 / FixScale (below 21), of 1 / 100 or of 1; NaN below zero
Sqrt(v) ==
  IF IsNaN(v) \/ v[1] < 0 THEN NaN
  ELSE IF ~IsFinite(v) THEN Infinity
  ELSE Only({IF rn * rn = v[1] /\ rd * rd = v[2] THEN <<rn, rd>>
             ELSE IF JFloor(v) < 21 THEN Rat(SqrtSearch(v, 0, 46341), FixScale)
             ELSE IF JFloor(v) < 200000 THEN Rat(ISqrt(ToFix(v)), 100)
             ELSE Num(ISqrt(JFloor(v))) :
               rn \in {ISqrt(v[1])}, rd \in {ISqrt(v[2])}})

\* Math.sqrt(a * a + 1): |a| itself from 30000 on, where the two differ by
\* less than the precision
Norm(a) ==
  IF IsFinite(a) /\ Abs(JFloor(a)) >= 30000 THEN JAbs(a)
  ELSE Sqrt(JAdd(JMul(a, a), Num(1)))

\* e^-1 in units of 1 / FixScale
ExpMinusOne == 3679

\* e^-f * FixScale for f = x / FixScale in [0, 1): six terms of the series
ExpFrac(x) ==
  LET H5(h) == FixScale - (x * h) \div (5 * FixScale)
      H4(h) == FixScale - (x * h) \div (4 * FixScale)
      H3(h) == FixScale - (x * h) \div (3 * FixScale)
      H2(h) == FixScale - (x * h) \div (2 * FixScale)
  IN  FixScale - (x * H2(H3(H4(H5(FixScale))))) \div FixScale

\* e^-k * FixScale for a natural number k
RECURSIVE ExpInt(_)
ExpInt(k) == IF k = 0 THEN FixScale
             ELSE IF k > 10 THEN 0
             ELSE (ExpInt(k - 1) * ExpMinusOne) \div FixScale

\* Math.exp(-u) * FixScale for a finite u >= 0
ExpNegFix(u) ==
  Only({(ExpInt(x \div FixScale) * ExpFrac(x % FixScale)) \div FixScale :
          x \in {ToFix(u)}})

\* Math.exp(v) for v <= 0
ExpNeg(v) ==
  IF IsNaN(v) THEN NaN
  ELSE IF ~IsFinite(v) THEN Num(0)
  ELSE IF JGt(JNeg(v), Num(11)) THEN Num(0)
  ELSE Rat(ExpNegFix(JNeg(v)), FixScale)

\* Math.tanh(v) for v >= 0: (1 - e^-2v) / (1 + e^-2v)
TanhPos(v) ==
  IF IsNaN(v) THEN NaN
  ELSE IF ~IsFinite(v) \/ JGt(v, Num(5)) THEN Num(1)
  ELSE Only({Rat(((FixScale - e) * FixScale) \div (FixScale + e), FixScale) :
               e \in {ExpNegFix(JMul(Num(2), v))}})

\* tanh is odd
Tanh(v) ==
  IF IsNaN(v) THEN NaN ELSE Signed(IF v[1] < 0 THEN -1 ELSE 1, TanhPos(JAbs(v)))

\* sin(pi * u) for 0 <= u <= 1 by Bhaskara's formula 16 u (1-u) / (5 - 4 u (1-u)),
\* u in units of 1 / FixScale, the result too
SinPiFix(x) ==
  Only({(16 * w * FixScale) \div (5 * FixScale - 4 * w) :
          w \in {(x * (FixScale - x)) \div FixScale}})

\* Math.sin(t * Math.PI): NaN for NaN and the infinities
SinPi(t) ==
  IF ~IsFinite(t) THEN NaN
  ELSE Only({Rat((IF x <= FixScale THEN 1 ELSE -1)
                    * SinPiFix(IF x <= FixScale THEN x ELSE x - FixScale), FixScale) :
               x \in {ToFix(JSub(t, Num(2 * (JFloor(t) \div 2))))}})

----------------------------------------------------------------------------
(* Bounds of the model *)

\* the enumerated datasets have 1..MaxLen points
MaxLen == 4

\* the catalog is generated from a seed in 1..NumSeeds
NumSeeds == 1

----------------------------------------------------------------------------
(* State *)

VARIABLES
  selectedDataset,   \* Index: the Dataset record [id, kernel, data]
  C,                 \* Index: strictness, a number
  gamma,             \* Index: sensitivity, a number
  polynomialDegree,  \* Index: 1, 2 or 3
  svmResult,         \* Index: Null or the SVMResult of the last train()
  pc,                \* what React does next: "render", "effect", "idle"; or the
                     \* page is gone: "crashed", "hung"
  effectDue,         \* a dependency of the training effect changed
  view,              \* what the last render of Index put on the page
  selectedPoint,     \* SVMVisualization: Null or [index |-> i] of the inspected point
  randomSeed         \* the Math.random() sequence of the page load; 0 when the
                     \* dataset is not one of the catalog

vars == <<selectedDataset, C, gamma, polynomialDegree, svmResult, pc, effectDue,
          view, selectedPoint, randomSeed>>

Null == [null |-> TRUE]

Kernels == {"linear", "polynomial", "rbf", "sigmoid"}

----------------------------------------------------------------------------
(* SimpleSVMEngine *)

\* data.filter(d => d.label === l)
FilterLabel(data, l) == SelectSeq(data, LAMBDA d : d.label = l)

\* points.reduce((s, p) => s + p.x, 0) over the positions lo..hi
RECURSIVE SumX(_, _, _)
SumX(points, lo, hi) ==
  IF lo > hi THEN 0
  ELSE IF lo = hi THEN points[lo].x
  ELSE SumX(points, lo, (lo + hi) \div 2) + SumX(points, (lo + hi) \div 2 + 1, hi)

RECURSIVE SumY(_, _, _)
SumY(points, lo, hi) ==
  IF lo > hi THEN 0
  ELSE IF lo = hi THEN points[lo].y
  ELSE SumY(points, lo, (lo + hi) \div 2) + SumY(points, (lo + hi) \div 2 + 1, hi)

\* the centre of an empty class is 0/0 = NaN in both coordinates
centerOfMass(points) ==
  [x |-> JDiv(Num(SumX(points, 1, Len(points))), Num(Len(points))),
   y |-> JDiv(Num(SumY(points, 1, Len(points))), Num(Len(points)))]

\* dx * dx + dy * dy for two points with number coordinates
SqDist(p1, p2) ==
  LET Squares(dx, dy) == JAdd(JMul(dx, dx), JMul(dy, dy))
  IN  Squares(JSub(p1.x, p2.x), JSub(p1.y, p2.y))

\* a data point with its coordinates as numbers
AsNum(d) == [x |-> Num(d.x), y |-> Num(d.y)]

(* kernelDistance returns f(arg) for a function f that is increasing in arg:   *)
(* sqrt(arg), pow(arg, degree) on arg >= 1, exp(arg) and tanh(arg).  The model *)
(* keeps the pair [fn, arg]; the value itself is never needed, only the sign   *)
(* of a difference of two of them (KSubSign).                                  *)
kernelDistance(kernel, g, degree, p1, p2) ==
  LET Of(sq) ==
        CASE kernel = "linear"     -> [fn |-> "sqrt", arg |-> sq]
          [] kernel = "polynomial" -> [fn |-> "pow", arg |-> JAdd(sq, Num(1))]
          [] kernel = "rbf"        -> [fn |-> "exp", arg |-> JMul(JNeg(g), sq)]
          [] kernel = "sigmoid"    -> [fn |-> "tanh", arg |-> JAdd(JMul(g, sq), Num(1))]
          [] OTHER                 -> [fn |-> "sqrt", arg |-> sq]
  IN  Of(SqDist(p1, p2))

\* Math.exp(x) is 0 in double precision for x below about -745.13
ExpUnderflow == <<-74513, 100>>

\* Math.tanh(x) is 1 in double precision for x above about 19.07
TanhSaturation == <<1907, 100>>

\* the argument after the saturation of f in double precision
Saturate(k) ==
  CASE k.fn = "exp"  -> IF JLt(k.arg, ExpUnderflow) THEN ExpUnderflow ELSE k.arg
    [] k.fn = "tanh" -> IF JGt(k.arg, TanhSaturation) THEN TanhSaturation ELSE k.arg
    [] OTHER         -> k.arg

\* a score is NaN or has a sign
NaNScore == [nan |-> TRUE, sign |-> 0]

\* the sign of u - v for two kernel distances of the same kernel
KSubSign(u, v, degree) ==
  IF IsNaN(u.arg) \/ IsNaN(v.arg) THEN NaNScore
  ELSE IF u.fn = "pow" /\ degree = 0 THEN [nan |-> FALSE, sign |-> 0]
  ELSE [nan |-> FALSE, sign |-> JCmp(Saturate(u), Saturate(v))]

\* weight = -C: a weight that is not kept within (-1, 1)
scoreWeightUnbounded(c) == JNeg(c)

\* weight = Math.tanh(this.C * 0.5)
scoreWeight(c) == Tanh(JMul(c, <<1, 2>>))

\* (distToNeg - distToPos) * (1 + weight * 0.5): the sign of the score is the
\* sign of the difference times the sign of the second factor
decisionFunction(kernel, c, g, degree, point, posCenter, negCenter) ==
  LET distToPos == kernelDistance(kernel, g, degree, point, posCenter)
      distToNeg == kernelDistance(kernel, g, degree, point, negCenter)
      Times(difference, factor) ==
        IF difference.nan \/ IsNaN(factor) THEN NaNScore
        ELSE [nan |-> FALSE, sign |-> difference.sign * JSign(factor)]
  IN  Times(KSubSign(distToNeg, distToPos, degree),
            JAdd(Num(1), JMul(scoreWeight(c), <<1, 2>>)))

\* score >= 0 ? 1 : 0 ; a NaN score is not >= 0
predict(data, kernel, c, g, degree, point) ==
  LET Label(score) == IF ~score.nan /\ score.sign >= 0 THEN 1 ELSE 0
  IN  Label(decisionFunction(kernel, c, g, degree, AsNum(point),
                             centerOfMass(FilterLabel(data, 1)),
                             centerOfMass(FilterLabel(data, 0))))

\* the count of a cell that looks at the prediction only
CountCellAnyLabel(data, predictions, pred, actual) ==
  Cardinality({i \in 1..Len(data) : predictions[i] = pred})

\* the number of indices i with predictions[i] = pred and data[i].label = actual
CountCell(data, predictions, pred, actual) ==
  Cardinality({i \in 1..Len(data) : predictions[i] = pred /\ data[i].label = actual})

\* calculateMetrics with the denominators of precision and recall exchanged
calculateMetricsSwapped(data, predictions) ==
  LET Metrics(tp, fp, tn, fn) ==
        [accuracy  |-> JDiv(Num(tp + tn), Num(Len(data))),
         precision |-> OrZero(JDiv(Num(tp), Num(tp + fn))),
         recall    |-> OrZero(JDiv(Num(tp), Num(tp + fp))),
         confusionMatrix |-> [truePositive |-> tp, falsePositive |-> fp,
                              trueNegative |-> tn, falseNegative |-> fn]]
  IN  Metrics(CountCell(data, predictions, 1, 1), CountCell(data, predictions, 1, 0),
              CountCell(data, predictions, 0, 0), CountCell(data, predictions, 0, 1))

calculateMetrics(data, predictions) ==
  LET Metrics(tp, fp, tn, fn) ==
        [accuracy  |-> JDiv(Num(tp + tn), Num(Len(data))),
         precision |-> OrZero(JDiv(Num(tp), Num(tp + fp))),
         recall    |-> OrZero(JDiv(Num(tp), Num(tp + fn))),
         confusionMatrix |-> [truePositive |-> tp, falsePositive |-> fp,
                              trueNegative |-> tn, falseNegative |-> fn]]
  IN  Metrics(CountCell(data, predictions, 1, 1), CountCell(data, predictions, 1, 0),
              CountCell(data, predictions, 0, 0), CountCell(data, predictions, 0, 1))

----------------------------------------------------------------------------
(* SimpleSVMEngine.findSupportVectors *)

\* an array with every element computed
ArrayOf(s) == SubSeq(s, 1, Len(s))

\* Array.prototype.sort((a, b) => key(a) - key(b)) on a sequence of positions of
\* keys; the sort is stable, and a comparator result of NaN counts as 0
Before(keys, j, i) ==
  JLt(keys[j], keys[i]) \/ (~JLt(keys[i], keys[j]) /\ j < i)

\* the positions 1..n in ascending order of their keys
Sorted(keys) ==
  LET n == Len(keys)
      Placed(place) == ArrayOf([k \in 1..n |-> CHOOSE i \in 1..n : place[i] = k])
      Ranked(rank) ==
        Placed(ArrayOf([i \in 1..n |->
                 1 + Cardinality({j \in 1..n : rank[j] < rank[i]
                                                \/ (rank[j] = rank[i] /\ j < i)})]))
  IN  Ranked(ArrayOf([i \in 1..n |-> Cardinality({j \in 1..n : Before(keys, j, i)})]))

\* s.slice(0): the cap k forgotten
SliceUncapped(s, k) == s

\* s.slice(0, k)
Slice(s, k) == SubSeq(s, 1, Min2(k, Len(s)))

\* .map(p => p.idx - 1): an index one too small
ToIdxShifted(s) == [i \in 1..Len(s) |-> s[i] - 2]

\* .map(p => p.idx): the model's positions are 1-based, the indices 0-based
ToIdx(s) == [i \in 1..Len(s) |-> s[i] - 1]

\* the least and the greatest of the values at lo..hi (lo <= hi)
RECURSIVE Least(_, _, _)
Least(values, lo, hi) ==
  IF lo = hi THEN values[lo]
  ELSE JMin(Least(values, lo, (lo + hi) \div 2), Least(values, (lo + hi) \div 2 + 1, hi))

RECURSIVE Greatest(_, _, _)
Greatest(values, lo, hi) ==
  IF lo = hi THEN values[lo]
  ELSE JMax(Greatest(values, lo, (lo + hi) \div 2),
            Greatest(values, (lo + hi) \div 2 + 1, hi))

\* Math.min(...values) and Math.max(...values) of the first k values; the empty
\* list gives the infinities
MinOf(values, k) == IF k = 0 THEN Infinity ELSE Least(values, 1, k)

MaxOf(values, k) == IF k = 0 THEN NegInfinity ELSE Greatest(values, 1, k)

Xs(data) == ArrayOf([i \in 1..Len(data) |-> Num(data[i].x)])

Ys(data) == ArrayOf([i \in 1..Len(data) |-> Num(data[i].y)])

MinX(data) == MinOf(Xs(data), Len(data))

MaxX(data) == MaxOf(Xs(data), Len(data))

MinY(data) == MinOf(Ys(data), Len(data))

MaxY(data) == MaxOf(Ys(data), Len(data))

\* |a x + b y + c| / sqrt(a^2 + b^2) with b = -1
LineDistance(a, c, point) ==
  JDiv(JAbs(JAdd(JSub(JMul(a, point.x), point.y), c)), Norm(a))

\* the linear branch: the line through the 0.6-weighted point between the class
\* centres, the distance of every point to it
linearDistances(data, positive, negative) ==
  LET weight == <<3, 5>>
      Line(slope, intercept) ==
        ArrayOf([i \in 1..Len(data) |-> LineDistance(slope, intercept, AsNum(data[i]))])
      Through(slope, midPoint) == Line(slope, JSub(midPoint.y, JMul(slope, midPoint.x)))
      Between(posStats, negStats) ==
        Through(JDiv(JNeg(JSub(posStats.y, negStats.y)), JSub(posStats.x, negStats.x)),
                [x |-> JAdd(negStats.x, JMul(weight, JSub(posStats.x, negStats.x))),
                 y |-> JAdd(negStats.y, JMul(weight, JSub(posStats.y, negStats.y)))])
  IN  Between(centerOfMass(positive), centerOfMass(negative))

\* the selection the linear and the polynomial branch make from the distances:
\* the points sorted by distance, those within the distance at the position
\* floor(n * percent / 100), the first min(12, floor(n * 0.15)) of them
distanceSupportVectors(n, distance, percent) ==
  LET Within(pointsWithDistance, maxDistance) ==
        ToIdx(Slice(SelectSeq(pointsWithDistance, LAMBDA p : JLe(distance[p], maxDistance)),
                    Min2(12, FloorMul(n, 15, 100))))
      Ranked(pointsWithDistance) ==
        Within(pointsWithDistance,
               distance[pointsWithDistance[FloorMul(n, percent, 100) + 1]])
  IN  Ranked(Sorted(distance))

linearSupportVectors(data, positive, negative) ==
  distanceSupportVectors(Len(data), linearDistances(data, positive, negative), 25)

\* the polynomial branch: the distance of one point to the curve of the degree
polynomialDistance(data, positive, negative, degree, point) ==
  LET \* degree 1: a straight line between the lowest positive and the highest
      \* negative point
      Line(slope, separatingX, separatingY) ==
        LineDistance(slope, JSub(separatingY, JMul(slope, separatingX)), point)
      Straight(posCenter, negCenter, minBlueY, maxOrangeY) ==
        Line(JDiv(JSub(posCenter.y, negCenter.y), JSub(posCenter.x, negCenter.x)),
             JDiv(JAdd(posCenter.x, negCenter.x), Num(2)),
             JAdd(JAdd(maxOrangeY, JDiv(JSub(minBlueY, maxOrangeY), Num(2))),
                  JMul(JSub(minBlueY, maxOrangeY), <<1, 10>>)))
      \* degree 2: one sine wave; degree 3: two of them
      Wave(midX, midY, amplitude, offset) ==
        IF degree = 2
        THEN JAdd(JAdd(midY, JMul(amplitude, SinPi(offset))),
                  JMul(JSub(point.x, midX), <<1, 5>>))
        ELSE JAdd(JAdd(JAdd(midY,
                  JMul(amplitude, SinPi(JMul(offset, Num(2))))),
                  JMul(JMul(amplitude, <<3, 10>>), SinPi(JMul(offset, Num(4))))),
                  JMul(JSub(point.x, midX), <<3, 10>>))
      Curve(midX, midY, xRange, yRange) ==
        JAbs(JSub(point.y,
                  Wave(midX, midY, JMul(yRange, IF degree = 2 THEN <<1, 5>> ELSE <<1, 4>>),
                       JDiv(JSub(point.x, midX), JMul(xRange, <<1, 2>>)))))
      Centred(posCenter, negCenter) ==
        IF degree = 1
        THEN Straight(posCenter, negCenter, MinOf(Ys(positive), Len(positive)),
                      MaxOf(Ys(negative), Len(negative)))
        ELSE Curve(JDiv(JAdd(posCenter.x, negCenter.x), Num(2)),
                   JDiv(JAdd(posCenter.y, negCenter.y), Num(2)),
                   JSub(MaxX(data), MinX(data)), JSub(MaxY(data), MinY(data)))
  IN  Centred(centerOfMass(positive), centerOfMass(negative))

polynomialSupportVectors(data, positive, negative, degree) ==
  distanceSupportVectors(Len(data),
    ArrayOf([i \in 1..Len(data) |->
               polynomialDistance(data, positive, negative, degree, AsNum(data[i]))]), 20)

\* the sum over the points q at lo..hi of exp(-gamma * |point - q|^2)
RECURSIVE RbfSum(_, _, _, _, _)
RbfSum(points, g, point, lo, hi) ==
  IF lo > hi THEN Num(0)
  ELSE IF lo = hi THEN ExpNeg(JMul(JNeg(g), SqDist(point, AsNum(points[lo]))))
  ELSE JAdd(RbfSum(points, g, point, lo, (lo + hi) \div 2),
            RbfSum(points, g, point, (lo + hi) \div 2 + 1, hi))

\* the sum over the points q at lo..hi of tanh(gamma * (point . q) + 1)
RECURSIVE SigmoidSum(_, _, _, _, _)
SigmoidSum(points, g, point, lo, hi) ==
  IF lo > hi THEN Num(0)
  ELSE IF lo = hi
  THEN Tanh(JAdd(JMul(g, JAdd(JMul(point.x, Num(points[lo].x)),
                              JMul(point.y, Num(points[lo].y)))), Num(1)))
  ELSE JAdd(SigmoidSum(points, g, point, lo, (lo + hi) \div 2),
            SigmoidSum(points, g, point, (lo + hi) \div 2 + 1, hi))

\* the rbf and sigmoid branches: |posInfluence * cAdjustment - negInfluence|
rbfScore(positive, negative, c, g, point) ==
  LET posInfluence == JDiv(RbfSum(positive, g, point, 1, Len(positive)), Num(Len(positive)))
      negInfluence == JDiv(RbfSum(negative, g, point, 1, Len(negative)), Num(Len(negative)))
      cAdjustment == JAdd(Num(1), JMul(JSub(c, Num(1)), <<1, 5>>))
  IN  JAbs(JSub(JMul(posInfluence, cAdjustment), negInfluence))

sigmoidScore(positive, negative, c, g, point) ==
  LET posInfluence == JDiv(SigmoidSum(positive, g, point, 1, Len(positive)), Num(Len(positive)))
      negInfluence == JDiv(SigmoidSum(negative, g, point, 1, Len(negative)), Num(Len(negative)))
      cAdjustment == JAdd(Num(1), JMul(JSub(c, Num(1)), <<3, 20>>))
  IN  JAbs(JSub(JMul(posInfluence, cAdjustment), negInfluence))

\* the selection both branches make from the scores: the points up to the
\* threshold Math.max(0.3, score at position 10 || 0.3), at most
\* min(20, floor(n * 0.25)) of them; with fewer than 8, the first
\* min(20, floor(n * 0.3)) points instead
scoreSupportVectors(n, score) ==
  LET Chosen(pointsWithScore, boundaryPoints) ==
        IF Len(boundaryPoints) < 8
        THEN ToIdx(Slice(pointsWithScore, Min2(20, FloorMul(n, 30, 100))))
        ELSE ToIdx(boundaryPoints)
      Below(pointsWithScore, threshold) ==
        Chosen(pointsWithScore,
               Slice(SelectSeq(pointsWithScore, LAMBDA p : JLe(score[p], threshold)),
                     Min2(20, FloorMul(n, 25, 100))))
      From(pointsWithScore, tenth) ==
        Below(pointsWithScore,
              IF IsNaN(tenth) \/ tenth = Num(0) \/ JLt(tenth, <<3, 10>>)
              THEN <<3, 10>> ELSE tenth)
      Ranked(pointsWithScore) ==
        From(pointsWithScore, score[pointsWithScore[Min2(10, n - 1) + 1]])
  IN  Ranked(Sorted(score))

rbfSupportVectors(data, positive, negative, c, g) ==
  scoreSupportVectors(Len(data),
    ArrayOf([i \in 1..Len(data) |-> rbfScore(positive, negative, c, g, AsNum(data[i]))]))

sigmoidSupportVectors(data, positive, negative, c, g) ==
  scoreSupportVectors(Len(data),
    ArrayOf([i \in 1..Len(data) |-> sigmoidScore(positive, negative, c, g, AsNum(data[i]))]))

\* Euclidean distance
distance(p1, p2) == Sqrt(SqDist(p1, p2))

\* the heuristic after the four kernel branches
genericSupportVectors(data, positive, negative) ==
  LET n == Len(data)
      Chosen(diff, svIndices) ==
        IF Len(svIndices) < 3
        THEN ToIdx(Slice(Sorted(diff), Min2(10, FloorMul(n, 15, 100))))
        ELSE ToIdx(Slice(svIndices, Min2(15, Len(svIndices))))
      Ratios(diff, total) ==
        Chosen(diff, SelectSeq([i \in 1..n |-> i],
                               LAMBDA i : JLt(JDiv(diff[i], total[i]), <<3, 10>>)))
      Distances(distToPos, distToNeg) ==
        Ratios(ArrayOf([i \in 1..n |-> JAbs(JSub(distToPos[i], distToNeg[i]))]),
               ArrayOf([i \in 1..n |-> JAdd(distToPos[i], distToNeg[i])]))
      Centred(posCenter, negCenter) ==
        Distances(ArrayOf([i \in 1..n |-> distance(AsNum(data[i]), posCenter)]),
                  ArrayOf([i \in 1..n |-> distance(AsNum(data[i]), negCenter)]))
  IN  Centred(centerOfMass(positive), centerOfMass(negative))

findSupportVectors(data, kernel, c, g, degree, positive, negative) ==
  CASE kernel = "linear"     -> linearSupportVectors(data, positive, negative)
    [] kernel = "polynomial" -> polynomialSupportVectors(data, positive, negative, degree)
    [] kernel = "rbf"        -> rbfSupportVectors(data, positive, negative, c, g)
    [] kernel = "sigmoid"    -> sigmoidSupportVectors(data, positive, negative, c, g)
    [] OTHER                 -> genericSupportVectors(data, positive, negative)

----------------------------------------------------------------------------
(* SimpleSVMEngine.train *)

\* the 41 x 41 grid of generateBoundary: what the loops read.  The grid point
\* (i, j) and its value are BoundaryPoint(b, i, j).
resolution == 40

generateBoundary(data, kernel, c, g, degree) ==
  [xMin |-> MinX(data), xMax |-> MaxX(data), yMin |-> MinY(data), yMax |-> MaxY(data),
   posCenter |-> centerOfMass(FilterLabel(data, 1)),
   negCenter |-> centerOfMass(FilterLabel(data, 0)),
   kernel |-> kernel, C |-> c, gamma |-> g, degree |-> degree]

BoundaryPoint(b, i, j) ==
  LET At(x, y) ==
        [x |-> x, y |-> y,
         value |-> decisionFunction(b.kernel, b.C, b.gamma, b.degree,
                                    [x |-> x, y |-> y], b.posCenter, b.negCenter)]
  IN  At(JAdd(b.xMin, JMul(Rat(i, resolution), JSub(b.xMax, b.xMin))),
         JAdd(b.yMin, JMul(Rat(j, resolution), JSub(b.yMax, b.yMin))))

\* the margins are the grid points with |value| < 0.5, moved up and down by
\* offset = marginWidth * yRange * 0.05; a NaN value is not < 0.5
generateMargins(data, c) ==
  LET Margins(marginWidth) ==
        [marginWidth |-> marginWidth,
         offset |-> JMul(JMul(marginWidth, JSub(MaxY(data), MinY(data))), <<1, 20>>)]
  IN  Margins(JDiv(Num(1), JAdd(c, <<1, 2>>)))

\* the field trainedOn is not one of SVMResult: it keeps the inputs of the
\* engine for the properties; the field threw says that train() returned
train(data, kernel, c, g, degree) ==
  LET Result(supportVectors, metrics) ==
        [null |-> FALSE,
         threw |-> "none",
         supportVectors |-> supportVectors,
         accuracy |-> metrics.accuracy,
         precision |-> metrics.precision,
         recall |-> metrics.recall,
         confusionMatrix |-> metrics.confusionMatrix,
         boundaryPoints |-> generateBoundary(data, kernel, c, g, degree),
         margins |-> generateMargins(data, c),
         trainedOn |-> [data |-> data, kernel |-> kernel, C |-> c, gamma |-> g,
                        polynomialDegree |-> degree]]
  IN  Result(findSupportVectors(data, kernel, c, g, degree,
                                FilterLabel(data, 1), FilterLabel(data, 0)),
             calculateMetrics(data,
               ArrayOf([i \in 1..Len(data) |-> predict(data, kernel, c, g, degree, data[i])])))

----------------------------------------------------------------------------
(* data/datasets.ts: the catalog *)

\* Math.random() is a value k / RandSteps, k in 0..RandSteps-1, fixed by the seed
\* of the page load and the position of the call
RandSteps == 8

Rnd(seed, k, m) == ((seed * 7 + 3) * (k * 13 + 5) + ((k * k) % 11) + seed * k) % m

\* the loan dataset in units of 10 dollars of income and 10 points of credit
\* score: lengths of a tenth in both directions, angles and order as they are
LoanUnit == 10

\* the least c with c * c >= n
CeilSqrt(n) == LET r == ISqrt(n) IN IF r * r = n THEN r ELSE r + 1

\* point number k (from 0) of makeJitteredGrid, in dollars and credit points:
\* the centre of its cell plus a jitter of at most 0.2 of the cell, clipped
makeJitteredGrid(seed, salt, xMin, xMax, yMin, yMax, count, k) ==
  LET width == xMax - xMin
      height == yMax - yMin
      cols == CeilSqrt((count * width + Max2(1, height) - 1) \div Max2(1, height))
      rows == (count + Max2(1, cols) - 1) \div Max2(1, cols)
      r == k \div cols
      c == k % cols
      cx == xMin + ((2 * c + 1) * width) \div (2 * cols)
      cy == yMin + ((2 * r + 1) * height) \div (2 * rows)
      jx == ((2 * Rnd(seed, salt + 2 * k, RandSteps) - RandSteps) * width * 2)
            \div (RandSteps * cols * 10)
      jy == ((2 * Rnd(seed, salt + 2 * k + 1, RandSteps) - RandSteps) * height * 2)
            \div (RandSteps * rows * 10)
      dx15 == (15 * width) \div (100 * cols)
      dy15 == (15 * height) \div (100 * rows)
  IN  [x |-> Min2(xMax - dx15, Max2(xMin + dx15, cx + jx)),
       y |-> Min2(yMax - dy15, Max2(yMin + dy15, cy + jy))]

LoanPositives == 60

LoanNegatives == 40

generateLinearData(seed) ==
  ArrayOf([i \in 1..(LoanPositives + LoanNegatives) |->
     IF i <= LoanPositives
     THEN LET p == makeJitteredGrid(seed, 0, 90000, 125000, 780, 930, LoanPositives, i - 1)
          IN  [x |-> p.x \div LoanUnit, y |-> p.y \div LoanUnit, label |-> 1]
     ELSE LET p == makeJitteredGrid(seed, 200, 10000, 38000, 320, 560, LoanNegatives,
                                    i - 1 - LoanPositives)
          IN  [x |-> p.x \div LoanUnit, y |-> p.y \div LoanUnit, label |-> 0]])

StudentsPerClass == 50

generatePolynomialData(seed) ==
  ArrayOf([i \in 1..(2 * StudentsPerClass) |->
     IF i <= StudentsPerClass
     THEN [x |-> 25 + Rnd(seed, 2 * i, 15), y |-> 75 + Rnd(seed, 2 * i + 1, 20), label |-> 1]
     ELSE [x |-> 5 + Rnd(seed, 2 * i, 15), y |-> 20 + Rnd(seed, 2 * i + 1, 30), label |-> 0]])

\* the rejection sampling gives up after GuardLimit candidates
GuardLimit == 100

\* candidate number a for point k: a point of the box around the ellipse with
\* half-axes rx, ry and centre (cx, cy)
EllipseCandidate(seed, k, a, cx, cy, rx, ry) ==
  [x |-> cx + Rnd(seed, 2 * (k + 7 * a), 2 * rx + 1) - rx,
   y |-> cy + Rnd(seed, 2 * (k + 7 * a) + 1, 2 * ry + 1) - ry]

InEllipse(p, cx, cy, rx, ry) ==
  (p.x - cx) * (p.x - cx) * ry * ry + (p.y - cy) * (p.y - cy) * rx * rx
    <= rx * rx * ry * ry

\* inside the ellipse of the loyal customers enlarged by 1.1
InLoyalEllipse(p) ==
  100 * ((p.x - 22) * (p.x - 22) * 81 + (p.y - 95) * (p.y - 95) * 25) <= 121 * 25 * 81

\* while (!ok && guard < 100): the first candidate inside the ellipse (and, for
\* the occasional shoppers, outside the loyal ellipse), or the last candidate
\* when none is
EllipsePoint(seed, k, cx, cy, rx, ry, avoidLoyal) ==
  LET inside == {a \in 0..(GuardLimit - 1) :
                   LET p == EllipseCandidate(seed, k, a, cx, cy, rx, ry)
                   IN  InEllipse(p, cx, cy, rx, ry) /\ (avoidLoyal => ~InLoyalEllipse(p))}
      first == IF inside = {} THEN GuardLimit - 1
               ELSE CHOOSE a \in inside : \A b \in inside : a <= b
  IN  EllipseCandidate(seed, k, first, cx, cy, rx, ry)

LoyalCustomers == 60

OccasionalShoppers == 50

generateRBFData(seed) ==
  ArrayOf([i \in 1..(LoyalCustomers + OccasionalShoppers) |->
     IF i <= LoyalCustomers
     THEN LET p == EllipsePoint(seed, i, 22, 95, 5, 9, FALSE)
          IN  [x |-> p.x, y |-> p.y, label |-> 1]
     ELSE LET p == EllipsePoint(seed, i, 10, 50, 6, 8, TRUE)
          IN  [x |-> p.x, y |-> p.y, label |-> 0]])

PatientsPerGroup == 50

generateSigmoidData(seed) ==
  ArrayOf([i \in 1..(2 * PatientsPerGroup) |->
     IF i <= PatientsPerGroup
     THEN LET age == 50 + Rnd(seed, 2 * i, 35)
              cholesterol == 200 + (age - 50) * 3 + Rnd(seed, 2 * i + 1, 50)
          IN  [x |-> age, y |-> cholesterol, label |-> IF cholesterol > 220 THEN 1 ELSE 0]
     ELSE LET age == 25 + Rnd(seed, 2 * i, 35)
              cholesterol == 150 + age \div 2 + Rnd(seed, 2 * i + 1, 40)
          IN  [x |-> age, y |-> cholesterol, label |-> IF cholesterol > 220 THEN 1 ELSE 0]])

\* export const datasets: loan, students, customers, health
datasets(seed) ==
  [k \in 1..4 |->
     CASE k = 1 -> [id |-> "loan", kernel |-> "linear", data |-> generateLinearData(seed)]
       [] k = 2 -> [id |-> "students", kernel |-> "polynomial",
                    data |-> generatePolynomialData(seed)]
       [] k = 3 -> [id |-> "customers", kernel |-> "rbf", data |-> generateRBFData(seed)]
       [] k = 4 -> [id |-> "health", kernel |-> "sigmoid",
                    data |-> generateSigmoidData(seed)]]

----------------------------------------------------------------------------
(* SVMVisualization: the boundary line of the linear kernel and its margin *)

\* the positions of a set of positions, ascending
Ascending(keep) ==
  ArrayOf([k \in 1..Cardinality(keep) |->
             CHOOSE i \in keep : Cardinality({j \in keep : j < i}) = k - 1])

\* supportSet.has(i) for the position i (from 1) of a point
InSupportSet(result, i) ==
  \E k \in 1..Len(result.supportVectors) : result.supportVectors[k] = i - 1

\* boundaryPositiveData (l = 1) and boundaryNegativeData (l = 0): the points of
\* the label, for the loan dataset without the support vectors
boundaryData(dataset, result, l) ==
  LET data == dataset.data
      Kept(kept) == ArrayOf([k \in 1..Len(kept) |-> data[kept[k]]])
  IN  Kept(Ascending({i \in 1..Len(data) :
             /\ data[i].label = l
             /\ dataset.id = "loan" => ~InSupportSet(result, i)}))

\* supportVectorAll.filter(p => p.label === ...) reads p.label of undefined for
\* an index that is not one of dataset.data
supportVectorsThrow(dataset, result) ==
  \E k \in 1..Len(result.supportVectors) :
    result.supportVectors[k] >= Len(dataset.data)

\* the means of getDecisionBoundaryLine: sum / Math.max(1, length)
classStats(points) ==
  [x |-> JDiv(Num(SumX(points, 1, Len(points))), Num(Max2(1, Len(points)))),
   y |-> JDiv(Num(SumY(points, 1, Len(points))), Num(Max2(1, Len(points))))]

\* the slope without its sign: (posStats.y - negStats.y) / Math.max(1e-6, ...)
boundarySlopeRising(posStats, negStats) ==
  JDiv(JSub(posStats.y, negStats.y),
       JMax(<<1, 1000000>>, JSub(posStats.x, negStats.x)))

\* -(posStats.y - negStats.y) / Math.max(1e-6, posStats.x - negStats.x)
boundarySlope(posStats, negStats) ==
  JDiv(JNeg(JSub(posStats.y, negStats.y)),
       JMax(<<1, 1000000>>, JSub(posStats.x, negStats.x)))

\* the loop takes steps of (xMax - xMin) / Samples
Samples == 50

\* for (x = xMin; x <= xMax; x += step) never ends when the step is 0
samplingHangs(data) ==
  Len(data) > 0 /\ JSub(MaxX(data), MinX(data)) = Num(0)

\* the points (x, slope * x + intercept) of the loop; none when xMin <= xMax fails
linePoints(data, slope, intercept) ==
  LET Point(x) == [x |-> x, y |-> JAdd(JMul(slope, x), intercept)]
      Stepped(xMin, xMax, step) ==
        IF ~JLe(xMin, xMax) THEN <<>>
        ELSE ArrayOf([i \in 1..(Samples + 1) |-> Point(JAdd(xMin, JMul(Num(i - 1), step)))])
      Across(xMin, xMax) == Stepped(xMin, xMax, JDiv(JSub(xMax, xMin), Num(Samples)))
  IN  Across(MinX(data), MaxX(data))

\* a * p.x + b * p.y with b = 1
projections(points, a) ==
  ArrayOf([i \in 1..Len(points) |-> JAdd(JMul(a, Num(points[i].x)), Num(points[i].y))])

\* computeBounds: the interval of the intercepts c that keep the margin
computeBounds(posProj, negProj, norm, margin) ==
  [lower |-> MaxOf(ArrayOf([i \in 1..Len(posProj) |->
                              JSub(JMul(margin, norm), posProj[i])]), Len(posProj)),
   upper |-> MinOf(ArrayOf([i \in 1..Len(negProj) |->
                              JSub(JMul(JNeg(margin), norm), negProj[i])]), Len(negProj))]

\* the while loop gives up after MaxAttempts reductions of the margin
MaxAttempts == 10

\* m = baseMargin * cFactor + epsilon with baseMargin = yRange * 0.03,
\* epsilon = yRange * 0.001 and cFactor = 1 + (1 / Math.max(0.1, C)) * 2
candidateMargin(data, c) ==
  Only({JAdd(JMul(JMul(yRange, <<3, 100>>),
                  JAdd(Num(1), JMul(JDiv(Num(1), JMax(<<1, 10>>, c)), Num(2)))),
             JMul(yRange, <<1, 1000>>)) :
          yRange \in {JSub(MaxY(data), MinY(data))}})

\* a search that halves the margin and goes on while lower >= upper
RECURSIVE marginSearchHalving(_, _, _, _, _)
marginSearchHalving(posProj, negProj, norm, m, attempts) ==
  LET Tried(bounds) ==
        IF JGe(bounds.lower, bounds.upper) /\ attempts < MaxAttempts
        THEN marginSearchHalving(posProj, negProj, norm, JMul(m, <<1, 2>>), attempts + 1)
        ELSE [m |-> m, lower |-> bounds.lower, upper |-> bounds.upper,
              attempts |-> attempts]
  IN  Tried(computeBounds(posProj, negProj, norm, m))

\* while (lower > upper && attempts < 10) { m *= 0.8; ... }
RECURSIVE marginSearch(_, _, _, _, _)
marginSearch(posProj, negProj, norm, m, attempts) ==
  LET Tried(bounds) ==
        IF JGt(bounds.lower, bounds.upper) /\ attempts < MaxAttempts
        THEN marginSearch(posProj, negProj, norm, JMul(m, <<4, 5>>), attempts + 1)
        ELSE [m |-> m, lower |-> bounds.lower, upper |-> bounds.upper,
              attempts |-> attempts]
  IN  Tried(computeBounds(posProj, negProj, norm, m))

\* the loan branch of getDecisionBoundaryLine, in the order of the source from
\* the last definition to the first
loanBoundaryLine(dataset, result, c) ==
  LET data == dataset.data
      \* the points of the line, and what the branch has computed on the way
      Emitted(slope, a, norm, found, cChosen) ==
        [points |-> linePoints(data, slope, JNeg(cChosen)),
         slope |-> slope, intercept |-> JNeg(cChosen),
         a |-> a, norm |-> norm, cChosen |-> cChosen,
         lower |-> found.lower, upper |-> found.upper, attempts |-> found.attempts,
         loanMargin |-> found.m]
      \* cChosen = (lower + upper) / 2
      Searched(slope, a, norm, found) ==
        Emitted(slope, a, norm, found, JDiv(JAdd(found.lower, found.upper), Num(2)))
      \* the search from the candidate margin
      Normal(boundaryPositiveData, boundaryNegativeData, slope, a, norm) ==
        Searched(slope, a, norm,
                 marginSearch(projections(boundaryPositiveData, a),
                              projections(boundaryNegativeData, a), norm,
                              candidateMargin(data, c), 0))
      \* a = -slope, b = 1, norm = Math.sqrt(a * a + b * b)
      Sloped(boundaryPositiveData, boundaryNegativeData, slope) ==
        Normal(boundaryPositiveData, boundaryNegativeData, slope, JNeg(slope),
               Norm(JNeg(slope)))
      Separated(boundaryPositiveData, boundaryNegativeData) ==
        Sloped(boundaryPositiveData, boundaryNegativeData,
               boundarySlope(classStats(boundaryPositiveData),
                             classStats(boundaryNegativeData)))
  IN  Separated(boundaryData(dataset, result, 1), boundaryData(dataset, result, 0))

\* y >= yMin - yRange * 0.1 && y <= yMax + yRange * 0.1
InPlotArea(data, y) ==
  LET Padded(yMin, yMax, pad) == JGe(y, JSub(yMin, pad)) /\ JLe(y, JAdd(yMax, pad))
      Within(yMin, yMax) == Padded(yMin, yMax, JMul(JSub(yMax, yMin), <<1, 10>>))
  IN  Within(MinY(data), MaxY(data))

\* the branch of the other linear datasets: the line through the 0.6-weighted
\* point between the class means, moved by (C - 1) * yRange * 0.03
plainBoundaryLine(dataset, result, c) ==
  LET data == dataset.data
      weight == <<3, 5>>
      Emitted(slope, adjustedIntercept) ==
        [points |-> SelectSeq(linePoints(data, slope, adjustedIntercept),
                              LAMBDA p : InPlotArea(data, p.y)),
         slope |-> slope, intercept |-> adjustedIntercept]
      Adjusted(slope, intercept, yRange) ==
        Emitted(slope, JAdd(intercept, JMul(JMul(JSub(c, Num(1)), yRange), <<3, 100>>)))
      Through(slope, midPoint) ==
        Adjusted(slope, JSub(midPoint.y, JMul(slope, midPoint.x)),
                 JSub(MaxY(data), MinY(data)))
      Between(posStats, negStats) ==
        Through(boundarySlope(posStats, negStats),
                [x |-> JAdd(negStats.x, JMul(weight, JSub(posStats.x, negStats.x))),
                 y |-> JAdd(negStats.y, JMul(weight, JSub(posStats.y, negStats.y)))])
  IN  Between(classStats(boundaryData(dataset, result, 1)),
              classStats(boundaryData(dataset, result, 0)))

\* getDecisionBoundaryLine, for a dataset on which its loop ends
getDecisionBoundaryLine(dataset, result, c) ==
  IF dataset.kernel # "linear" THEN [points |-> <<>>]
  ELSE IF dataset.id = "loan" THEN loanBoundaryLine(dataset, result, c)
  ELSE plainBoundaryLine(dataset, result, c)

\* the width taken from a _loanMargin that is stored once and kept from one
\* render to the next
marginWidthKept(dataset, boundaryLine, c) ==
  IF dataset.id = "loan"
  THEN IF view.shown /\ view.dataset.id = "loan" /\ view.marginLines.drawn
       THEN view.marginLines.marginWidth
       ELSE boundaryLine.loanMargin
  ELSE JDiv(JMul(JSub(MaxY(dataset.data), MinY(dataset.data)), <<2, 25>>),
            JAdd(c, <<1, 10>>))

\* the width getMarginLines takes: the margin the loan branch has just stored
\* in _loanMargin, and yRange * 0.08 / (C + 0.1) otherwise
marginWidth(dataset, boundaryLine, c) ==
  IF dataset.id = "loan" THEN boundaryLine.loanMargin
  ELSE JDiv(JMul(JSub(MaxY(dataset.data), MinY(dataset.data)), <<2, 25>>),
            JAdd(c, <<1, 10>>))

\* (cos, sin) of Math.atan(-1 / slope), the slope that of the means of all the
\* points of the classes, by plain division
perpDirection(data) ==
  LET Unit(perpSlope, norm) ==
        IF IsNaN(perpSlope) THEN [cos |-> NaN, sin |-> NaN]
        ELSE IF ~IsFinite(perpSlope) THEN [cos |-> Num(0), sin |-> Num(JSign(perpSlope))]
        ELSE [cos |-> JDiv(Num(1), norm), sin |-> JDiv(perpSlope, norm)]
      Angle(perpSlope) == Unit(perpSlope, Norm(perpSlope))
      Between(posStats, negStats) ==
        Angle(JDiv(Num(-1), JDiv(JNeg(JSub(posStats.y, negStats.y)),
                                 JSub(posStats.x, negStats.x))))
  IN  Between(centerOfMass(FilterLabel(data, 1)), centerOfMass(FilterLabel(data, 0)))

\* getMarginLines with the switch showMargins on, as it is after the mount
getMarginLines(dataset, result, c) ==
  LET Lines(width, dir) ==
        [drawn |-> TRUE, marginWidth |-> width,
         dx |-> JMul(width, dir.cos), dy |-> JMul(width, dir.sin)]
      Along(boundaryLine) ==
        IF dataset.kernel # "linear" \/ Len(boundaryLine.points) = 0
        THEN [drawn |-> FALSE]
        ELSE Lines(marginWidth(dataset, boundaryLine, c), perpDirection(dataset.data))
  IN  Along(getDecisionBoundaryLine(dataset, result, c))

\* what one render of SVMVisualization computes from its props, in the order
\* of the function body
renderVisualization(dataset, result, c, g, degree) ==
  LET Shown(line, marginLines) ==
        [shown |-> TRUE, outcome |-> "ok",
         dataset |-> dataset, result |-> result,
         C |-> c, gamma |-> g, polynomialDegree |-> degree,
         boundaryLine |-> [line EXCEPT !.points = Len(line.points)],
         marginLines |-> marginLines]
  IN  IF supportVectorsThrow(dataset, result)
      THEN [shown |-> FALSE, outcome |-> "TypeError"]
      ELSE IF dataset.kernel = "linear" /\ samplingHangs(dataset.data)
      THEN [shown |-> FALSE, outcome |-> "hang"]
      ELSE Shown(getDecisionBoundaryLine(dataset, result, c),
                 getMarginLines(dataset, result, c))

----------------------------------------------------------------------------
(* SVMVisualization: decisionBoundaryLine, the curve of the kernel *)

\* pts = positiveData.map(p => ({ x: p.x, y: p.y })), and the same of the
\* negative points
classPoints(data, l) ==
  ArrayOf([i \in 1..Len(FilterLabel(data, l)) |-> AsNum(FilterLabel(data, l)[i])])

\* (a, b) => (a.x === b.x ? a.y - b.y : a.x - b.x) is negative
comesFirst(a, b) == IF a.x = b.x THEN JLt(a.y, b.y) ELSE JLt(a.x, b.x)

\* [...pts].sort(...): by x, then by y; the sort is stable
sortedPoints(pts) ==
  ArrayOf([k \in 1..Len(pts) |->
    pts[CHOOSE i \in 1..Len(pts) :
          Cardinality({j \in 1..Len(pts) :
                         \/ comesFirst(pts[j], pts[i])
                         \/ (~comesFirst(pts[i], pts[j]) /\ j < i)}) = k - 1]])

\* (a.x - o.x) * (b.y - o.y) - (a.y - o.y) * (b.x - o.x)
cross(o, a, b) ==
  JSub(JMul(JSub(a.x, o.x), JSub(b.y, o.y)), JMul(JSub(a.y, o.y), JSub(b.x, o.x)))

\* while (chain.length >= 2 && cross(...) <= 0) chain.pop()
RECURSIVE popped(_, _)
popped(chain, p) ==
  IF Len(chain) >= 2 /\ JLe(cross(chain[Len(chain) - 1], chain[Len(chain)], p), Num(0))
  THEN popped(SubSeq(chain, 1, Len(chain) - 1), p)
  ELSE chain

\* one loop of the monotone chain over the points from the position k on
RECURSIVE chainOver(_, _, _)
chainOver(points, k, chain) ==
  IF k > Len(points) THEN chain
  ELSE chainOver(points, k + 1, Append(popped(chain, points[k]), points[k]))

\* for (let i = sorted.length - 1; i >= 0; i--)
Reversed(s) == ArrayOf([i \in 1..Len(s) |-> s[Len(s) + 1 - i]])

\* lower.slice(0, lower.length - 1).concat(upper.slice(0, upper.length - 1))
convexHull(sorted) ==
  Only({SubSeq(lower, 1, Len(lower) - 1) \o SubSeq(upper, 1, Len(upper) - 1) :
          lower \in {chainOver(sorted, 1, <<>>)},
          upper \in {chainOver(Reversed(sorted), 1, <<>>)}})

\* values.reduce((s, v) => s + v, 0) over the positions lo..hi
RECURSIVE SumOf(_, _, _)
SumOf(values, lo, hi) ==
  IF lo > hi THEN Num(0)
  ELSE IF lo = hi THEN values[lo]
  ELSE JAdd(SumOf(values, lo, (lo + hi) \div 2), SumOf(values, (lo + hi) \div 2 + 1, hi))

\* the hull moved away from its centroid by the factor 1.02
inflated(hull) ==
  Only({ArrayOf([i \in 1..Len(hull) |->
           [x |-> JAdd(cx, JMul(JSub(hull[i].x, cx), <<51, 50>>)),
            y |-> JAdd(cy, JMul(JSub(hull[i].y, cy), <<51, 50>>))]]) :
          cx \in {JDiv(SumOf(ArrayOf([i \in 1..Len(hull) |-> hull[i].x]), 1, Len(hull)),
                       Num(Len(hull)))},
          cy \in {JDiv(SumOf(ArrayOf([i \in 1..Len(hull) |-> hull[i].y]), 1, Len(hull)),
                       Num(Len(hull)))}})

\* 0.75 * p0 + 0.25 * p1 in both coordinates
corner(p0, p1) ==
  [x |-> JAdd(JMul(<<3, 4>>, p0.x), JMul(<<1, 4>>, p1.x)),
   y |-> JAdd(JMul(<<3, 4>>, p0.y), JMul(<<1, 4>>, p1.y))]

\* chaikin: for every corner of the polygon the points Q and R on its edge to
\* the next corner
chaikin(poly) ==
  ArrayOf([m \in 1..(2 * Len(poly)) |->
    IF m % 2 = 1
    THEN corner(poly[(m + 1) \div 2], poly[(((m + 1) \div 2) % Len(poly)) + 1])
    ELSE corner(poly[((m \div 2) % Len(poly)) + 1], poly[m \div 2])])

\* the body getRBFDecisionBoundary and getRBFNegativeBoundary share: the points
\* themselves when they are fewer than 3, and else their hull, inflated and
\* smoothed twice
contour(pts) ==
  IF Len(pts) < 3 THEN pts
  ELSE chaikin(chaikin(inflated(convexHull(sortedPoints(pts)))))

getRBFDecisionBoundary(dataset) ==
  IF dataset.kernel # "rbf" THEN <<>> ELSE contour(classPoints(dataset.data, 1))

getRBFNegativeBoundary(dataset) ==
  IF dataset.kernel # "rbf" THEN <<>> ELSE contour(classPoints(dataset.data, 0))

\* the plot of the data stretched by the share pad of its range on every side
extended(data, pad) ==
  Only({[xMin |-> JSub(xMin, JMul(JSub(xMax, xMin), pad)),
         xMax |-> JAdd(xMax, JMul(JSub(xMax, xMin), pad)),
         yMin |-> JSub(yMin, JMul(JSub(yMax, yMin), pad)),
         yMax |-> JAdd(yMax, JMul(JSub(yMax, yMin), pad)),
         xRange |-> JSub(xMax, xMin), yRange |-> JSub(yMax, yMin)] :
          xMin \in {MinX(data)}, xMax \in {MaxX(data)},
          yMin \in {MinY(data)}, yMax \in {MaxY(data)}})

\* x = extendedXMin + t * (extendedXMax - extendedXMin) with t = i / numPoints
sampleX(plot, i, numPoints) ==
  JAdd(plot.xMin, JMul(JDiv(Num(i), Num(numPoints)), JSub(plot.xMax, plot.xMin)))

\* the middle of the two class centres
midOf(posCenter, negCenter) ==
  [x |-> JDiv(JAdd(posCenter.x, negCenter.x), Num(2)),
   y |-> JDiv(JAdd(posCenter.y, negCenter.y), Num(2))]

\* the samples with yMin <= y <= yMax, in the order of the loop
withinPlot(samples, plot) ==
  SelectSeq(samples, LAMBDA p : JGe(p.y, plot.yMin) /\ JLe(p.y, plot.yMax))

\* the polynomial curve has numPoints + 1 samples
PolynomialPoints == 150

\* y of the polynomial curve at x: the perpendicular bisector of the class
\* centres for the degree 1, one sine wave for 2, two of them otherwise
polynomialY(degree, posCenter, negCenter, mid, plot, x) ==
  IF degree = 1
  THEN Only({JAdd(JMul(slope, x), JSub(mid.y, JMul(slope, mid.x))) :
               slope \in {IF JLt(JAbs(JSub(posCenter.y, negCenter.y)), <<1, 1000000>>)
                          THEN Num(1000000)
                          ELSE JNeg(JDiv(JSub(posCenter.x, negCenter.x),
                                         JSub(posCenter.y, negCenter.y)))}})
  ELSE Only({IF degree = 2
             THEN JAdd(JAdd(mid.y, JMul(JMul(plot.yRange, <<1, 5>>), SinPi(offset))),
                       JMul(JSub(x, mid.x), <<1, 5>>))
             ELSE JAdd(JAdd(JAdd(mid.y,
                    JMul(JMul(plot.yRange, <<1, 4>>), SinPi(JMul(offset, Num(2))))),
                    JMul(JMul(JMul(plot.yRange, <<1, 4>>), <<3, 10>>),
                         SinPi(JMul(offset, Num(4))))),
                    JMul(JSub(x, mid.x), <<3, 10>>)) :
               offset \in {JDiv(JSub(x, mid.x), JMul(plot.xRange, <<1, 2>>))}})

getPolynomialDecisionBoundary(dataset, degree) ==
  IF dataset.kernel # "polynomial" THEN <<>>
  ELSE Only({withinPlot(
               ArrayOf([k \in 1..(PolynomialPoints + 1) |->
                 Only({[x |-> x,
                        y |-> polynomialY(degree, posCenter, negCenter,
                                          midOf(posCenter, negCenter), plot, x)] :
                         x \in {sampleX(plot, k - 1, PolynomialPoints)}})]), plot) :
               plot \in {extended(dataset.data, <<1, 10>>)},
               posCenter \in {centerOfMass(FilterLabel(dataset.data, 1))},
               negCenter \in {centerOfMass(FilterLabel(dataset.data, 0))}})

\* the sigmoid curve has numPoints + 1 samples
SigmoidPoints == 400

\* the smoothing takes the mean of the windowSize samples before a sample, the
\* sample and the windowSize samples after it
WindowSize == 25

\* sumY / count over the samples of the window that exist
smoothed(points) ==
  Only({ArrayOf([i \in 1..Len(points) |->
          Only({[x |-> points[i].x,
                 y |-> JDiv(SumOf(ys, lo, hi), Num(hi - lo + 1))] :
                  lo \in {Max2(1, i - WindowSize)},
                  hi \in {Min2(Len(points), i + WindowSize)}})]) :
          ys \in {ArrayOf([k \in 1..Len(points) |-> points[k].y])}})

\* y of the S-curve at x, moved by (C - 1) * yRange * 0.02
sigmoidY(mid, plot, steepness, c, x) ==
  JAdd(JSub(mid.y, JMul(JMul(plot.yRange, <<7, 20>>), Tanh(JDiv(JSub(x, mid.x), steepness)))),
       JMul(JMul(JSub(c, Num(1)), plot.yRange), <<1, 50>>))

getSigmoidDecisionBoundary(dataset, c, g) ==
  IF dataset.kernel # "sigmoid" THEN <<>>
  ELSE Only({smoothed(withinPlot(
               ArrayOf([k \in 1..(SigmoidPoints + 1) |->
                 Only({[x |-> x,
                        y |-> sigmoidY(mid, plot, JMax(<<3, 2>>, JMul(g, <<4, 5>>)), c, x)] :
                         x \in {sampleX(plot, k - 1, SigmoidPoints)}})]), plot)) :
               plot \in {extended(dataset.data, <<1, 5>>)},
               mid \in {midOf(centerOfMass(FilterLabel(dataset.data, 1)),
                              centerOfMass(FilterLabel(dataset.data, 0)))}})

\* decisionBoundaryLine: the curve of the generator of the kernel of the dataset
decisionBoundaryLine(dataset, result, c, g, degree) ==
  IF dataset.kernel = "linear" THEN getDecisionBoundaryLine(dataset, result, c).points
  ELSE IF dataset.kernel = "rbf" THEN getRBFDecisionBoundary(dataset)
  ELSE IF dataset.kernel = "sigmoid" THEN getSigmoidDecisionBoundary(dataset, c, g)
  ELSE getPolynomialDecisionBoundary(dataset, degree)

\* the render of SVMVisualization with the curve of the kernel and the contour
\* of the negative class recorded as well
renderCurves(dataset, result, c, g, degree) ==
  Only({IF ~shown.shown THEN shown
        ELSE shown @@ [curve |-> decisionBoundaryLine(dataset, result, c, g, degree),
                       rbfNegativeBoundary |-> IF dataset.kernel = "rbf"
                                               THEN getRBFNegativeBoundary(dataset)
                                               ELSE <<>>] :
          shown \in {renderVisualization(dataset, result, c, g, degree)}})

----------------------------------------------------------------------------
(* Inputs *)

\* the labelled points the enumerated datasets are made of: the two classes
\* apart, above one another, and one point in both classes
Pool ==
  <<[x |-> 0, y |-> 0, label |-> 0], [x |-> 1, y |-> 0, label |-> 0],
    [x |-> 0, y |-> 2, label |-> 0], [x |-> 1, y |-> 0, label |-> 1],
    [x |-> 1, y |-> 3, label |-> 1], [x |-> 3, y |-> 3, label |-> 1]>>

\* a dataset of two points of label 0 and two of label 1 far from them
FourPoints ==
  <<[x |-> 0, y |-> 0, label |-> 0], [x |-> 1, y |-> 0, label |-> 0],
    [x |-> 9, y |-> 9, label |-> 1], [x |-> 10, y |-> 9, label |-> 1]>>

\* the four points with the labels exchanged: the positive class on the left
Mirrored == [i \in 1..Len(FourPoints) |-> [FourPoints[i] EXCEPT !.label = 1 - @]]

\* the datasets the curves are drawn for: the four points and their mirror
\* image, the pool and the pool from its last point to its first, each class
\* of the pool alone, and two points above one another and side by side
CurveData ==
  {FourPoints, ArrayOf(Mirrored), Pool, Reversed(Pool), SubSeq(Pool, 1, 3),
   SubSeq(Pool, 4, 6), <<Pool[2], Pool[5]>>, <<Pool[1], Pool[5]>>}

\* two clusters far apart: ten points of label 0 at (4, 0), then 34 points of
\* label 1 at (0, 0)
Clusters ==
  ArrayOf([i \in 1..44 |-> IF i <= 10 THEN [x |-> 4, y |-> 0, label |-> 0]
                                      ELSE [x |-> 0, y |-> 0, label |-> 1]])

\* the datasets of n points of the pool in the order of the pool, and reversed
PoolData(n) ==
  LET picks == {s \in [1..n -> 1..Len(Pool)] : \A i \in 1..(n - 1) : s[i] <= s[i + 1]}
  IN  {ArrayOf([i \in 1..n |-> Pool[s[i]]]) : s \in picks}
        \cup {ArrayOf([i \in 1..n |-> Pool[s[n + 1 - i]]]) : s \in picks}

\* every such dataset of 1..MaxLen points
SmallData == UNION {PoolData(n) : n \in 1..MaxLen}

\* parameter values of the range of the Strictness slider and of the presets
ParamValues == {[C |-> <<1, 10>>, gamma |-> <<1, 10>>],
                [C |-> Num(1), gamma |-> <<1, 10>>],
                [C |-> Num(10), gamma |-> Num(1)]}

\* values of the Strictness slider: min 0.1, max 10, step 0.1
SliderValues == {<<1, 10>>, <<1, 5>>, Num(1), Num(10)}

\* the (gamma, C) of the three buttons shown for the rbf kernel
Presets == {[gamma |-> <<1, 10>>, C |-> Num(1)], [gamma |-> Num(1), C |-> Num(10)],
            [gamma |-> Num(10), C |-> Num(100)]}

----------------------------------------------------------------------------
(* Index *)

\* nothing of the panel, the visualization and the summary is on the page
NoView == [shown |-> FALSE, outcome |-> "none"]

\* the inspector of the selected point, the last part of the render of
\* SVMVisualization: dataset.data[selectedPoint].x.toFixed(1) reads x of
\* undefined when selectedPoint is not an index of dataset.data
inspected(shown, point) ==
  IF shown.shown /\ point # Null
                 /\ point.index \notin 0..(Len(shown.dataset.data) - 1)
  THEN [shown |-> FALSE, outcome |-> "TypeError"]
  ELSE shown

\* one render of Index: {selectedDataset && svmResult && (...)}.  An exception
\* of SVMVisualization unmounts the page, a loop that never ends freezes it.
Render ==
  /\ pc = "render"
  /\ view' = IF svmResult = Null THEN NoView
             ELSE inspected(renderVisualization(selectedDataset, svmResult, C, gamma,
                                                polynomialDegree), selectedPoint)
  /\ pc' = IF view'.outcome = "TypeError" THEN "crashed"
           ELSE IF view'.outcome = "hang" THEN "hung"
           ELSE IF effectDue THEN "effect" ELSE "idle"
  /\ UNCHANGED <<selectedDataset, C, gamma, polynomialDegree, svmResult, effectDue, selectedPoint, randomSeed>>

\* the effect with a train() that reverses this.data in place
RunEffectReversing ==
  /\ pc = "effect"
  /\ svmResult' = train(selectedDataset.data, selectedDataset.kernel, C, gamma,
                        polynomialDegree)
  /\ selectedDataset' = [selectedDataset EXCEPT !.data = Reversed(@)]
  /\ effectDue' = FALSE
  /\ pc' = "render"
  /\ UNCHANGED <<C, gamma, polynomialDegree, view, selectedPoint, randomSeed>>

\* the effect of Index: new SimpleSVMEngine(...).train(), then setSvmResult
RunEffect ==
  /\ pc = "effect"
  /\ svmResult' = train(selectedDataset.data, selectedDataset.kernel, C, gamma,
                        polynomialDegree)
  /\ effectDue' = FALSE
  /\ pc' = "render"
  /\ UNCHANGED <<selectedDataset, C, gamma, polynomialDegree, view, selectedPoint, randomSeed>>

\* a click on a card with a handler that only calls setSelectedDataset(dataset)
SelectDatasetOnly(k) ==
  /\ pc = "idle"
  /\ randomSeed \in 1..NumSeeds
  /\ datasets(randomSeed)[k] # selectedDataset
  /\ selectedDataset' = datasets(randomSeed)[k]
  /\ effectDue' = TRUE
  /\ pc' = "render"
  /\ UNCHANGED <<C, gamma, polynomialDegree, svmResult, view, selectedPoint, randomSeed>>

\* a click on a card with the handler Index passes to ControlPanel:
\* setSelectedDataset(dataset), then handleReset() with setPolynomialDegree(2)
SelectDatasetWithReset(k) ==
  /\ pc = "idle"
  /\ randomSeed \in 1..NumSeeds
  /\ <<datasets(randomSeed)[k], Num(1), <<1, 10>>, 2>>
       # <<selectedDataset, C, gamma, polynomialDegree>>
  /\ selectedDataset' = datasets(randomSeed)[k]
  /\ C' = Num(1)
  /\ gamma' = <<1, 10>>
  /\ polynomialDegree' = 2
  /\ effectDue' = TRUE
  /\ pc' = "render"
  /\ UNCHANGED <<svmResult, view, selectedPoint, randomSeed>>

\* a click on a card of DatasetSelector: setSelectedDataset(dataset), setC(1.0),
\* setGamma(0.1); React renders only if one of the three has changed
SelectDataset(k) ==
  /\ pc = "idle"
  /\ randomSeed \in 1..NumSeeds
  /\ <<datasets(randomSeed)[k], Num(1), <<1, 10>>>> # <<selectedDataset, C, gamma>>
  /\ selectedDataset' = datasets(randomSeed)[k]
  /\ C' = Num(1)
  /\ gamma' = <<1, 10>>
  /\ effectDue' = TRUE
  /\ pc' = "render"
  /\ UNCHANGED <<polynomialDegree, svmResult, view, selectedPoint, randomSeed>>

\* the Strictness slider of ControlPanel, shown unless the kernel is rbf
CChange(c) ==
  /\ pc = "idle"
  /\ view.shown
  /\ selectedDataset.kernel # "rbf"
  /\ c # C
  /\ C' = c
  /\ effectDue' = TRUE
  /\ pc' = "render"
  /\ UNCHANGED <<selectedDataset, gamma, polynomialDegree, svmResult, view, selectedPoint, randomSeed>>

\* one of the three buttons of the rbf kernel: onGammaChange, then onCChange
ApplyPreset(p) ==
  /\ pc = "idle"
  /\ view.shown
  /\ selectedDataset.kernel = "rbf"
  /\ <<p.gamma, p.C>> # <<gamma, C>>
  /\ gamma' = p.gamma
  /\ C' = p.C
  /\ effectDue' = TRUE
  /\ pc' = "render"
  /\ UNCHANGED <<selectedDataset, polynomialDegree, svmResult, view, selectedPoint, randomSeed>>

\* one of the degree buttons 1, 2, 3 of the polynomial kernel
DegreeChange(d) ==
  /\ pc = "idle"
  /\ view.shown
  /\ selectedDataset.kernel = "polynomial"
  /\ d # polynomialDegree
  /\ polynomialDegree' = d
  /\ effectDue' = TRUE
  /\ pc' = "render"
  /\ UNCHANGED <<selectedDataset, C, gamma, svmResult, view, selectedPoint, randomSeed>>

\* dataset.data.findIndex(d => d.x === data.x && d.y === data.y) for the
\* payload data of the point drawn for the position i (from 1)
findIndex(data, i) ==
  (CHOOSE j \in 1..Len(data) :
     /\ data[j].x = data[i].x /\ data[j].y = data[i].y
     /\ \A k \in 1..(j - 1) : ~(data[k].x = data[i].x /\ data[k].y = data[i].y)) - 1

\* a click on the point drawn for the position i: setSelectedPoint(idx).  The
\* points of the loan dataset are drawn at places of their own (lines 938-1181)
\* which the model does not compute; clicks on them are left out.
ClickPoint(i) ==
  /\ pc = "idle"
  /\ view.shown
  /\ selectedDataset.id # "loan"
  /\ i \in 1..Len(selectedDataset.data)
  /\ selectedPoint # [index |-> findIndex(selectedDataset.data, i)]
  /\ selectedPoint' = [index |-> findIndex(selectedDataset.data, i)]
  /\ pc' = "render"
  /\ UNCHANGED <<selectedDataset, C, gamma, polynomialDegree, svmResult, effectDue, view,
                 randomSeed>>

\* the Close button of the inspector: setSelectedPoint(null)
ClosePoint ==
  /\ pc = "idle"
  /\ view.shown
  /\ selectedPoint # Null
  /\ selectedPoint' = Null
  /\ pc' = "render"
  /\ UNCHANGED <<selectedDataset, C, gamma, polynomialDegree, svmResult, effectDue, view,
                 randomSeed>>

\* the page after the load: datasets[0], C 1.0, gamma 0.1, degree 2, no result
Init ==
  /\ randomSeed \in 1..NumSeeds
  /\ selectedDataset = datasets(randomSeed)[1]
  /\ C = Num(1)
  /\ gamma = <<1, 10>>
  /\ polynomialDegree = 2
  /\ svmResult = Null
  /\ pc = "render"
  /\ effectDue = TRUE
  /\ view = NoView
  /\ selectedPoint = Null

Next ==
  \/ Render
  \/ RunEffect
  \/ \E k \in 1..4 : SelectDataset(k)
  \/ \E c \in SliderValues : CChange(c)
  \/ \E p \in Presets : ApplyPreset(p)
  \/ \E d \in 1..3 : DegreeChange(d)

Spec == Init /\ [][Next]_vars

\* the positions of the points that are clicked: the first two points, and the
\* last point of a dataset of the catalog
ClickTargets == {1, 2, 2 * StudentsPerClass, LoyalCustomers + OccasionalShoppers}

\* the page with its dataset cards, its points and the Close button of the
\* inspector
NextInspect ==
  \/ Render
  \/ RunEffect
  \/ \E k \in 1..4 : SelectDataset(k)
  \/ \E i \in ClickTargets : ClickPoint(i)
  \/ ClosePoint

SpecInspect == Init /\ [][NextInspect]_vars

\* train() as a function of its inputs: every enumerated dataset and the two
\* clusters under every kernel, and the catalog, under the parameter values
InitEngine ==
  /\ \/ /\ randomSeed = 0
        /\ selectedDataset \in [id : {"test"}, kernel : Kernels,
                                data : SmallData \cup {Clusters}]
     \/ /\ randomSeed \in 1..NumSeeds
        /\ \E k \in 1..4 : selectedDataset = datasets(randomSeed)[k]
  /\ \E p \in ParamValues : C = p.C /\ gamma = p.gamma
  /\ polynomialDegree \in 1..3
  /\ selectedDataset.kernel # "polynomial" => polynomialDegree = 2
  /\ svmResult = Null
  /\ pc = "effect"
  /\ effectDue = TRUE
  /\ view = NoView
  /\ selectedPoint = Null

SpecEngine == InitEngine /\ [][RunEffect]_vars

\* SVMVisualization as a function of its props: the mount of Index on a linear
\* dataset, with the id of the loan dataset or another, under the slider values
InitView ==
  /\ \/ /\ randomSeed = 0
        /\ selectedDataset \in [id : {"loan", "test"}, kernel : {"linear"},
                                data : SmallData \cup {FourPoints}]
     \/ /\ randomSeed \in 1..NumSeeds
        /\ selectedDataset = datasets(randomSeed)[1]
  /\ C \in SliderValues
  /\ gamma = <<1, 10>>
  /\ polynomialDegree = 2
  /\ svmResult = Null
  /\ pc = "render"
  /\ effectDue = TRUE
  /\ view = NoView
  /\ selectedPoint = Null

NextView == Render \/ RunEffect

SpecView == InitView /\ [][NextView]_vars

\* a render of a trained result, with the curves recorded
RenderCurves ==
  /\ pc = "render"
  /\ svmResult # Null
  /\ view' = inspected(renderCurves(selectedDataset, svmResult, C, gamma,
                                    polynomialDegree), selectedPoint)
  /\ pc' = IF view'.outcome = "TypeError" THEN "crashed"
           ELSE IF view'.outcome = "hang" THEN "hung"
           ELSE IF effectDue THEN "effect" ELSE "idle"
  /\ UNCHANGED <<selectedDataset, C, gamma, polynomialDegree, svmResult, effectDue, selectedPoint, randomSeed>>

\* the curve of every kernel as a function of the props: the datasets of
\* CurveData under every kernel and the parameter values, trained and rendered
InitCurve ==
  /\ randomSeed = 0
  /\ selectedDataset \in [id : {"test"}, kernel : Kernels, data : CurveData]
  /\ \E p \in ParamValues : C = p.C /\ gamma = p.gamma
  /\ polynomialDegree \in 1..3
  /\ selectedDataset.kernel # "polynomial" => polynomialDegree = 2
  /\ svmResult = Null
  /\ pc = "effect"
  /\ effectDue = TRUE
  /\ view = NoView
  /\ selectedPoint = Null

NextCurve == RunEffect \/ RenderCurves

SpecCurve == InitCurve /\ [][NextCurve]_vars

\* the same page trained and drawn again and again while the Strictness slider
\* moves: the four points and the pool under every kernel, the linear ones with
\* the id of the loan dataset as well
InitAgain ==
  /\ randomSeed = 0
  /\ selectedDataset \in [id : {"loan", "test"}, kernel : Kernels,
                          data : {FourPoints, Pool}]
  /\ selectedDataset.id = "loan" => selectedDataset.kernel = "linear"
  /\ C = Num(1)
  /\ gamma = <<1, 10>>
  /\ polynomialDegree = 2
  /\ svmResult = Null
  /\ pc = "effect"
  /\ effectDue = TRUE
  /\ view = NoView
  /\ selectedPoint = Null

NextAgain == RunEffect \/ RenderCurves \/ \E c \in SliderValues : CChange(c)

SpecAgain == InitAgain /\ [][NextAgain]_vars

----------------------------------------------------------------------------
(* Properties of train() *)

\* the dataset the engine was constructed with
TrainedData == svmResult.trainedOn.data

HasLabel(data, l) == \E i \in 1..Len(data) : data[i].label = l

\* C1: the four cells of the confusion matrix returned by train() are natural
\* numbers and add up to the number of points of the dataset
ConfusionMatrixSumsToLength ==
  svmResult # Null =>
    LET m == svmResult.confusionMatrix
    IN  /\ m.truePositive \in Nat /\ m.falsePositive \in Nat
        /\ m.trueNegative \in Nat /\ m.falseNegative \in Nat
        /\ m.truePositive + m.falsePositive + m.trueNegative + m.falseNegative
             = Len(TrainedData)

\* a result with right and wrong predictions of both kinds for label 0
ConfusionMatrixMixed ==
  /\ svmResult # Null
  /\ svmResult.confusionMatrix.falsePositive > 0
  /\ svmResult.confusionMatrix.trueNegative > 0
  /\ svmResult.confusionMatrix.truePositive > 0

\* C2: accuracy, precision and recall are (TP+TN)/n, TP/(TP+FP) and TP/(TP+FN)
\* of the returned confusion matrix, precision and recall being 0 when their
\* denominator is 0
MetricsFollowConfusionMatrix ==
  svmResult # Null =>
    LET m == svmResult.confusionMatrix
        predicted == m.truePositive + m.falsePositive
        actual == m.truePositive + m.falseNegative
    IN  /\ Len(TrainedData) > 0 =>
             svmResult.accuracy = Rat(m.truePositive + m.trueNegative, Len(TrainedData))
        /\ svmResult.precision =
             (IF predicted = 0 THEN Num(0) ELSE Rat(m.truePositive, predicted))
        /\ svmResult.recall =
             (IF actual = 0 THEN Num(0) ELSE Rat(m.truePositive, actual))

\* a result with no point predicted positive: the precision is the 0 of the
\* empty denominator
NoPredictedPositive ==
  /\ svmResult # Null
  /\ svmResult.confusionMatrix.truePositive + svmResult.confusionMatrix.falsePositive = 0
  /\ svmResult.precision = Num(0)

\* v is a number of the interval [0, 1]
InUnitInterval(v) == ~IsNaN(v) /\ JLe(Num(0), v) /\ JLe(v, Num(1))

\* C3: accuracy, precision and recall are numbers of the interval [0, 1], also
\* when no point is predicted positive or no point is positive
MetricsInUnitInterval ==
  svmResult # Null =>
    /\ InUnitInterval(svmResult.accuracy)
    /\ InUnitInterval(svmResult.precision)
    /\ InUnitInterval(svmResult.recall)

\* a result for a dataset without a positive point
NoActualPositive ==
  /\ svmResult # Null
  /\ ~HasLabel(TrainedData, 1)
  /\ svmResult.recall = Num(0)

\* C4: every support vector is an index of the dataset, and none occurs twice
SupportVectorsAreIndices ==
  svmResult # Null =>
    LET sv == svmResult.supportVectors
    IN  /\ \A i \in 1..Len(sv) : sv[i] \in 0..(Len(TrainedData) - 1)
        /\ \A i, j \in 1..Len(sv) : i # j => sv[i] # sv[j]

\* a result with several support vectors, the first point among them
SeveralSupportVectors ==
  /\ svmResult # Null
  /\ Len(svmResult.supportVectors) >= 2
  /\ \E i \in 1..Len(svmResult.supportVectors) : svmResult.supportVectors[i] = 0

\* C5: a dataset of at least 3 points with both labels has at least one
\* support vector, under every kernel
SupportVectorsNonEmpty ==
  (/\ svmResult # Null
   /\ Len(TrainedData) >= 3
   /\ HasLabel(TrainedData, 0) /\ HasLabel(TrainedData, 1))
  => Len(svmResult.supportVectors) >= 1

\* C6: there are at most 20 support vectors, at most 12 under the linear and
\* the polynomial kernel
SupportVectorsCapped ==
  svmResult # Null =>
    /\ Len(svmResult.supportVectors) <= 20
    /\ svmResult.trainedOn.kernel \in {"linear", "polynomial"}
         => Len(svmResult.supportVectors) <= 12

\* a result whose number of support vectors is the cap, of a dataset that has
\* more candidates than the cap
CapReached ==
  /\ svmResult # Null
  /\ Len(TrainedData) >= 100
  /\ \/ Len(svmResult.supportVectors) = 20
     \/ /\ svmResult.trainedOn.kernel = "linear"
        /\ Len(svmResult.supportVectors) = 12

\* the values train() returns: the metrics, the margins and the grid samples
IsNumber(v) == IsFinite(v)

ResultIsNumeric ==
  /\ IsNumber(svmResult.accuracy) /\ IsNumber(svmResult.precision)
  /\ IsNumber(svmResult.recall)
  /\ IsNumber(svmResult.margins.marginWidth) /\ IsNumber(svmResult.margins.offset)
  /\ \A i, j \in {0, resolution} :
       ~BoundaryPoint(svmResult.boundaryPoints, i, j).value.nan

\* C7: for a dataset of one label train() signals InsufficientClassDiversity
\* and returns nothing that holds NaN or Infinity
SingleClassSignalled ==
  (/\ svmResult # Null
   /\ ~(HasLabel(TrainedData, 0) /\ HasLabel(TrainedData, 1)))
  => /\ svmResult.threw = "InsufficientClassDiversity"
     /\ ResultIsNumeric

----------------------------------------------------------------------------
(* Properties of the page *)

\* the inputs of the train() that made the result on the page
RenderedFrom == view.result.trainedOn

\* C8: whenever the visualization and the metric cards are on the page, their
\* result was made by train() on the dataset and the C, gamma and degree they
\* are rendered with, and every support vector is an index of that dataset
RenderedResultIsCurrent ==
  view.shown =>
    /\ RenderedFrom = [data |-> view.dataset.data, kernel |-> view.dataset.kernel,
                       C |-> view.C, gamma |-> view.gamma,
                       polynomialDegree |-> view.polynomialDegree]
    /\ \A k \in 1..Len(view.result.supportVectors) :
         view.result.supportVectors[k] \in 0..(Len(view.dataset.data) - 1)

\* the width of the margin curves of the dataset on the page under the
\* strictness c and the result train() returns for c
WidthUnder(c) ==
  getMarginLines(view.dataset,
                 train(view.dataset.data, view.dataset.kernel, c, view.gamma,
                       view.polynomialDegree), c).marginWidth

\* C9: for the linear kernel the width of the margin curves on the page is at
\* least the width the same dataset gets under any larger strictness
MarginWidthNeverGrows ==
  (/\ view.shown
   /\ view.dataset.kernel = "linear"
   /\ RenderedFrom.C = view.C
   /\ view.marginLines.drawn)
  => \A c \in SliderValues :
       JGt(c, view.C) => JLe(WidthUnder(c), view.marginLines.marginWidth)

\* the distance of a point from the boundary line on the page, times norm,
\* positive on the side of the positive class
SignedProjection(p) ==
  JAdd(JAdd(JMul(view.boundaryLine.a, Num(p.x)), Num(p.y)), view.boundaryLine.cChosen)

\* C10: in the loan variant, for a dataset with both classes, every positive
\* point is at distance >= m on the positive side of the line on the page and
\* every negative point at distance >= m on the other side, m the margin the
\* search ended with
LoanMarginSeparates ==
  (/\ view.shown
   /\ view.dataset.kernel = "linear" /\ view.dataset.id = "loan"
   /\ RenderedFrom.data = view.dataset.data
   /\ HasLabel(view.dataset.data, 0) /\ HasLabel(view.dataset.data, 1))
  => LET reach == JMul(view.boundaryLine.loanMargin, view.boundaryLine.norm)
     IN  \A i \in 1..Len(view.dataset.data) :
           LET p == view.dataset.data[i]
           IN  IF p.label = 1 THEN JGe(SignedProjection(p), reach)
               ELSE JLe(SignedProjection(p), JNeg(reach))

\* C13: in every state of the page the parameters handed to the engine and to
\* the visualization satisfy 0.1 <= C <= 10, 0.01 <= gamma <= 1 and
\* polynomialDegree in {1, 2, 3}
ParametersInRange ==
  /\ JGe(C, <<1, 10>>) /\ JLe(C, Num(10))
  /\ JGe(gamma, <<1, 100>>) /\ JLe(gamma, Num(1))
  /\ polynomialDegree \in 1..3

\* the class centres of a dataset have the same x-coordinate
CentresShareX(data) ==
  centerOfMass(FilterLabel(data, 1)).x = centerOfMass(FilterLabel(data, 0)).x

\* C14: when the two class centres of a dataset of both labels have the same
\* x-coordinate, the distances the linear branch of findSupportVectors sorts
\* the points by are finite numbers: no Infinity or NaN of the slope reaches
\* them
LinearDistancesAreNumbers ==
  (/\ svmResult # Null
   /\ svmResult.trainedOn.kernel = "linear"
   /\ HasLabel(TrainedData, 0) /\ HasLabel(TrainedData, 1)
   /\ CentresShareX(TrainedData))
  => \A i \in 1..Len(TrainedData) :
       IsNumber(linearDistances(TrainedData, FilterLabel(TrainedData, 1),
                                FilterLabel(TrainedData, 0))[i])

\* C20: for a dataset with points of both labels the render of the boundary
\* comes to an end: the page never hangs in a sampling loop
SamplingLoopEnds ==
  (HasLabel(selectedDataset.data, 0) /\ HasLabel(selectedDataset.data, 1))
  => pc # "hung"

\* the page shows the four points under the linear kernel, not as the loan
\* dataset, with the result train() returns for them under C = 1, gamma = 0.1
FourPointsShown ==
  /\ view.shown
  /\ view.dataset = [id |-> "test", kernel |-> "linear", data |-> FourPoints]
  /\ view.C = Num(1) /\ view.gamma = <<1, 10>>
  /\ RenderedFrom.data = FourPoints /\ RenderedFrom.C = view.C

\* the boundary line at x, less the y of a point: positive for a point under
\* the line
UnderLine(p) ==
  JSub(JAdd(JMul(view.boundaryLine.slope, Num(p.x)), view.boundaryLine.intercept),
       Num(p.y))

\* C18: for the four points train() predicts every point correctly (accuracy 1,
\* TP = 2, TN = 2, FP = 0, FN = 0), and the boundary line has points and has
\* the two points of label 0 strictly on one side and the two of label 1
\* strictly on the other
FourPointsSeparated ==
  FourPointsShown =>
    /\ view.result.accuracy = Num(1)
    /\ view.result.confusionMatrix =
         [truePositive |-> 2, falsePositive |-> 0,
          trueNegative |-> 2, falseNegative |-> 0]
    /\ view.boundaryLine.points > 0
    /\ \A i \in 1..Len(FourPoints) :
         IF FourPoints[i].label = 0 THEN JGt(UnderLine(FourPoints[i]), Num(0))
         ELSE JLt(UnderLine(FourPoints[i]), Num(0))

\* the line of the four points is on the page
FourPointsLineDrawn == FourPointsShown /\ view.boundaryLine.points >= 2

\* the dataset on the page has points of both labels
BothClassesShown ==
  view.shown /\ HasLabel(view.dataset.data, 0) /\ HasLabel(view.dataset.data, 1)


----------------------------------------------------------------------------
(* Properties of the curves *)

\* what the generator written for the kernel k returns for the props on the page
generatorCurve(k) ==
  CASE k = "linear"  -> getDecisionBoundaryLine(view.dataset, view.result, view.C).points
    [] k = "rbf"     -> getRBFDecisionBoundary(view.dataset)
    [] k = "sigmoid" -> getSigmoidDecisionBoundary(view.dataset, view.C, view.gamma)
    [] OTHER         -> getPolynomialDecisionBoundary(view.dataset, view.polynomialDegree)

\* an array of points { x, y }
IsArrayOfPoints(curve) ==
  /\ DOMAIN curve = 1..Len(curve)
  /\ \A i \in 1..Len(curve) : DOMAIN curve[i] = {"x", "y"}

\* a render that returns throws nothing for a dataset with points of both
\* labels, and the curve it draws is an array of points, empty or not, that of
\* the generator of the kernel and of no other: the other three generators
\* return the empty array
CurveFromOneGenerator ==
  /\ (HasLabel(selectedDataset.data, 0) /\ HasLabel(selectedDataset.data, 1))
       => pc # "crashed"
  /\ BothClassesShown =>
       /\ IsArrayOfPoints(view.curve)
       /\ \A k \in Kernels :
            generatorCurve(k) = IF k = view.dataset.kernel THEN view.curve ELSE <<>>

\* C11: for a dataset with points of both labels, under each of the four
\* kernels, the render of a trained result yields a curve that is an array of
\* points, empty or not, and throws nothing
CurveYielded ==
  (/\ HasLabel(selectedDataset.data, 0) /\ HasLabel(selectedDataset.data, 1)
   /\ pc \notin {"effect", "render"})
    => (pc = "idle" /\ view.shown /\ IsArrayOfPoints(view.curve))


NoCurveWithoutClass ==
  view.shown =>
    /\ (~HasLabel(view.dataset.data, 0) \/ ~HasLabel(view.dataset.data, 1))
         => Len(view.curve) = 0
    /\ (view.dataset.kernel = "rbf" /\ Len(classPoints(view.dataset.data, 1)) < 3)
         => Len(view.curve) = 0
    /\ (view.dataset.kernel = "rbf" /\ Len(classPoints(view.dataset.data, 0)) < 3)
         => Len(view.rbfNegativeBoundary) = 0


\* C16: whenever the dataset on the page has points of both labels, its curve
\* has at least 2 points, and under the linear, the polynomial and the sigmoid
\* kernel the x of its points increases strictly from each point to the next
CurveOrderedByX ==
  BothClassesShown =>
    /\ Len(view.curve) >= 2
    /\ view.dataset.kernel # "rbf" =>
         \A i \in 1..(Len(view.curve) - 1) : JLt(view.curve[i].x, view.curve[i + 1].x)

----------------------------------------------------------------------------
(* Properties of the inspector *)

\* C19: after any clicks on points, on Close and on dataset cards, the
\* selected point is null or an index of the dataset the page renders next,
\* so dataset.data[selectedPoint] is defined
SelectedPointIsOfDataset ==
  selectedPoint # Null =>
    selectedPoint.index \in 0..(Len(selectedDataset.data) - 1)

----------------------------------------------------------------------------
(* Properties of the parameters *)

\* the labels train() predicts for the trained dataset under the strictness c,
\* the other inputs as they were
predictionsUnder(c) ==
  ArrayOf([i \in 1..Len(TrainedData) |->
             predict(TrainedData, svmResult.trainedOn.kernel, c,
                     svmResult.trainedOn.gamma, svmResult.trainedOn.polynomialDegree,
                     TrainedData[i])])

\* C21: for a fixed dataset, kernel, gamma and degree the predicted label of
\* every point, and with it the confusion matrix, the accuracy, the precision
\* and the recall of train(), are the same for every C of the slider range
\* 0.1 .. 10
MetricsIndependentOfC ==
  svmResult # Null =>
    \A c \in SliderValues :
      /\ predictionsUnder(c) = predictionsUnder(svmResult.trainedOn.C)
      /\ calculateMetrics(TrainedData, predictionsUnder(c))
           = [accuracy |-> svmResult.accuracy,
              precision |-> svmResult.precision,
              recall |-> svmResult.recall,
              confusionMatrix |-> svmResult.confusionMatrix]

\* a result trained at C = 10 that predicts both labels
TrainedAtLargestC ==
  /\ svmResult # Null
  /\ svmResult.trainedOn.C = Num(10)
  /\ svmResult.confusionMatrix.truePositive > 0
  /\ svmResult.confusionMatrix.trueNegative > 0

\* the point at the position i of the trained dataset is strictly closer to
\* the centre of the class l than to the centre of the other class
closerTo(l, i) ==
  JLt(SqDist(AsNum(TrainedData[i]), centerOfMass(FilterLabel(TrainedData, l))),
      SqDist(AsNum(TrainedData[i]), centerOfMass(FilterLabel(TrainedData, 1 - l))))

\* the trained result predicts the label of the nearer class centre
nearestCentroidUnder(kernels) ==
  (/\ svmResult # Null
   /\ svmResult.trainedOn.kernel \in kernels
   /\ HasLabel(TrainedData, 0) /\ HasLabel(TrainedData, 1))
    => \A i \in 1..Len(TrainedData) : \A l \in {0, 1} :
         closerTo(l, i) => predictionsUnder(svmResult.trainedOn.C)[i] = l

\* C22: under each of the four kernels a point strictly closer to the centre
\* of the positive class is predicted 1, and a point strictly closer to the
\* centre of the negative class is predicted 0
NearestCentroidRule == nearestCentroidUnder(Kernels)

----------------------------------------------------------------------------
(* Properties of the support vectors *)

\* C23: when the heuristic of the kernel selects fewer than 3 points of a
\* dataset of both classes, findSupportVectors returns the selection of the
\* generic heuristic instead
FallsBackToGeneric ==
  (svmResult # Null
     /\ HasLabel(TrainedData, 0) /\ HasLabel(TrainedData, 1)
     /\ Len(findSupportVectors(TrainedData, svmResult.trainedOn.kernel,
                               svmResult.trainedOn.C, svmResult.trainedOn.gamma,
                               svmResult.trainedOn.polynomialDegree,
                               FilterLabel(TrainedData, 1), FilterLabel(TrainedData, 0))) < 3)
    => svmResult.supportVectors
         = genericSupportVectors(TrainedData, FilterLabel(TrainedData, 1),
                                 FilterLabel(TrainedData, 0))

\* y of the curve getPolynomialDecisionBoundary draws for the trained dataset
\* and degree, at x
generatorY(x) ==
  Only({polynomialY(svmResult.trainedOn.polynomialDegree, posCenter, negCenter,
                    midOf(posCenter, negCenter), extended(TrainedData, <<1, 10>>), x) :
          posCenter \in {centerOfMass(FilterLabel(TrainedData, 1))},
          negCenter \in {centerOfMass(FilterLabel(TrainedData, 0))}})

\* the distance the polynomial branch ranks the points by is the vertical
\* distance to the curve of the generator, for the degrees of the set
rankedByGeneratorCurve(degrees) ==
  (/\ svmResult # Null
   /\ svmResult.trainedOn.kernel = "polynomial"
   /\ svmResult.trainedOn.polynomialDegree \in degrees
   /\ HasLabel(TrainedData, 0) /\ HasLabel(TrainedData, 1))
    => \A i \in 1..Len(TrainedData) :
         polynomialDistance(TrainedData, FilterLabel(TrainedData, 1),
                            FilterLabel(TrainedData, 0),
                            svmResult.trainedOn.polynomialDegree, AsNum(TrainedData[i]))
           = JAbs(JSub(Num(TrainedData[i].y), generatorY(Num(TrainedData[i].x))))

\* C24: for the polynomial kernel and each degree 1, 2, 3 the engine ranks the
\* points by |y_point - y_curve(x_point)| for the curve the generator draws for
\* that degree
RankedByGeneratorCurve == rankedByGeneratorCurve({1, 2, 3})

----------------------------------------------------------------------------
(* Properties of the loan margin *)

\* the margin after k reductions: m *= 0.8, k times
RECURSIVE reducedMargin(_, _)
reducedMargin(m, k) == IF k = 0 THEN m ELSE JMul(reducedMargin(m, k - 1), <<4, 5>>)

\* the interval of the intercepts of the loan line shown, for the margin after
\* k reductions of the candidate margin
boundsAfter(k) ==
  computeBounds(projections(boundaryData(view.dataset, view.result, 1), view.boundaryLine.a),
                projections(boundaryData(view.dataset, view.result, 0), view.boundaryLine.a),
                view.boundaryLine.norm,
                reducedMargin(candidateMargin(view.dataset.data, view.C), k))

\* C25: the loan margin search reduces the margin at most 10 times by the
\* factor 0.8 and stops at the first margin whose interval of intercepts is
\* not empty (lower <= upper); the margin is the candidate times 0.8^k for the
\* least such k in 0..10, or k = 10 when there is none, and the intercept
\* chosen is the middle of the interval computed last
MarginSearchBacksOff ==
  (view.shown /\ view.dataset.id = "loan")
    => /\ view.boundaryLine.attempts \in 0..MaxAttempts
       /\ view.boundaryLine.loanMargin
            = reducedMargin(candidateMargin(view.dataset.data, view.C),
                            view.boundaryLine.attempts)
       /\ \A k \in 0..(view.boundaryLine.attempts - 1) :
            ~JLe(boundsAfter(k).lower, boundsAfter(k).upper)
       /\ view.boundaryLine.attempts < MaxAttempts
            => JLe(view.boundaryLine.lower, view.boundaryLine.upper)
       /\ boundsAfter(view.boundaryLine.attempts)
            = [lower |-> view.boundaryLine.lower, upper |-> view.boundaryLine.upper]
       /\ view.boundaryLine.cChosen
            = JDiv(JAdd(view.boundaryLine.lower, view.boundaryLine.upper), Num(2))

\* a loan line whose margin was reduced, and found after fewer than 10
\* reductions
MarginFoundAfterBackoff ==
  /\ view.shown /\ view.dataset.id = "loan"
  /\ view.boundaryLine.attempts \in 1..(MaxAttempts - 1)
  /\ JLe(view.boundaryLine.lower, view.boundaryLine.upper)

\* |score| of every point of the trained dataset under its kernel, rbf or
\* sigmoid
trainedScores ==
  ArrayOf([i \in 1..Len(TrainedData) |->
    IF svmResult.trainedOn.kernel = "rbf"
    THEN rbfScore(FilterLabel(TrainedData, 1), FilterLabel(TrainedData, 0),
                  svmResult.trainedOn.C, svmResult.trainedOn.gamma, AsNum(TrainedData[i]))
    ELSE sigmoidScore(FilterLabel(TrainedData, 1), FilterLabel(TrainedData, 0),
                      svmResult.trainedOn.C, svmResult.trainedOn.gamma,
                      AsNum(TrainedData[i]))])

\* the selection by the score at the position nth of the ranking (from 1): the
\* points up to max(0.3, that score) in rank order, at most
\* min(20, floor(0.25 n)); with fewer than 8 of them the min(20, floor(0.30 n))
\* points of smallest score
selectionByNth(score, nth) ==
  Only({Only({IF Len(chosen) < 8
              THEN ToIdx(Slice(ranked, Min2(20, FloorMul(Len(score), 30, 100))))
              ELSE ToIdx(chosen) :
                chosen \in {Slice(SelectSeq(ranked,
                                    LAMBDA p : JLe(score[p], JMax(<<3, 10>>, score[ranked[nth]]))),
                                  Min2(20, FloorMul(Len(score), 25, 100)))}}) :
          ranked \in {Sorted(score)}})

\* C26: for the rbf and sigmoid kernels the support vectors are the selection
\* by the 10th-smallest |score|
SelectedByTenthScore ==
  (/\ svmResult # Null
   /\ svmResult.trainedOn.kernel \in {"rbf", "sigmoid"}
   /\ HasLabel(TrainedData, 0) /\ HasLabel(TrainedData, 1)
   /\ Len(TrainedData) >= 10)
    => svmResult.supportVectors = selectionByNth(trainedScores, 10)

----------------------------------------------------------------------------
(* The hull of the rbf contours *)

\* the points of the hull datasets have the coordinates 0..HullGrid
HullGrid == 2

\* the hull datasets have 3..MaxHull points
MaxHull == 4

\* the point number k of the grid, with the label l
GridPoint(k, l) == [x |-> k \div (HullGrid + 1), y |-> k % (HullGrid + 1), label |-> l]

\* the datasets of n points of the grid, all of the label l, with repeated
\* points, in the order of the grid and reversed
HullData(n, l) ==
  LET picks == {s \in [1..n -> 0..((HullGrid + 1) * (HullGrid + 1) - 1)] :
                  \A i \in 1..(n - 1) : s[i] <= s[i + 1]}
  IN  {ArrayOf([i \in 1..n |-> GridPoint(s[i], l)]) : s \in picks}
        \cup {ArrayOf([i \in 1..n |-> GridPoint(s[n + 1 - i], l)]) : s \in picks}

\* the contours of the rbf kernel as a function of the points of one class
InitHull ==
  /\ randomSeed = 0
  /\ selectedDataset \in [id : {"test"}, kernel : {"rbf"},
                          data : UNION {HullData(n, l) : n \in 3..MaxHull, l \in {0, 1}}]
  /\ C = Num(1)
  /\ gamma = <<1, 10>>
  /\ polynomialDegree = 2
  /\ svmResult = Null
  /\ pc = "effect"
  /\ effectDue = TRUE
  /\ view = NoView
  /\ selectedPoint = Null

SpecHull == InitHull /\ [][NextCurve]_vars

\* the hull the contour of the class l of the dataset shown is made from
hullOf(l) == convexHull(sortedPoints(classPoints(view.dataset.data, l)))

\* the vertices are points of the class, none twice, with a strict left turn at
\* every vertex, and no point of the class is on the right of an edge
convexPolygonAround(hull, pts) ==
  /\ \A i \in 1..Len(hull) : \E k \in 1..Len(pts) : pts[k] = hull[i]
  /\ \A i, j \in 1..Len(hull) : hull[i] = hull[j] => i = j
  /\ \A i \in 1..Len(hull) :
       /\ JGt(cross(hull[i], hull[(i % Len(hull)) + 1],
                    hull[((i + 1) % Len(hull)) + 1]), Num(0))
       /\ \A k \in 1..Len(pts) :
            JGe(cross(hull[i], hull[(i % Len(hull)) + 1], pts[k]), Num(0))

\* C27: for a class of at least 3 points, repeated and collinear ones among
\* them, the monotone chain of the rbf contours returns points of the class in
\* counter-clockwise order, with a strict left turn at every vertex and no
\* vertex twice, and every point of the class is inside or on that polygon
HullIsConvexPolygon ==
  (view.shown /\ view.dataset.kernel = "rbf")
    => \A l \in {0, 1} :
         Len(classPoints(view.dataset.data, l)) >= 3
           => convexPolygonAround(hullOf(l), classPoints(view.dataset.data, l))

----------------------------------------------------------------------------
(* Properties of the page *)

\* C28: a click on a card of the dataset selector, the card of the current
\* dataset too, sets C to 1.0 and gamma to 0.1 whatever they were before
SelectionResetsParameters ==
  [][((\E k \in 1..4 : SelectDataset(k)) \/ selectedDataset' # selectedDataset)
       => (C' = Num(1) /\ gamma' = <<1, 10>>)]_vars

\* another dataset was selected while the page showed a C other than 1.0, and
\* C and gamma are 1.0 and 0.1
SelectedWithChangedC ==
  /\ view.shown
  /\ view.dataset # selectedDataset
  /\ view.C # Num(1)
  /\ C = Num(1) /\ gamma = <<1, 10>>

----------------------------------------------------------------------------
(* The training effect under fair scheduling *)

\* React finishes a render it has scheduled: a step that leaves pc = "render".
\* Under Next that is a step of Render, which is enabled whenever pc = "render".
RenderDone == pc = "render" /\ pc' \in {"effect", "idle", "crashed", "hung"}

\* React runs the effect of a committed render: a step that leaves
\* pc = "effect".  Under Next that is a step of RunEffect.
EffectDone == pc = "effect" /\ pc' = "render"

\* the page with a React that does its work: neither the render nor the effect
\* waits for the user
SpecFair == Spec /\ WF_pc(RenderDone) /\ WF_pc(EffectDone)

\* the inputs of the training effect, its dependency list
effectInputs == <<selectedDataset, C, gamma, polynomialDegree>>

\* the stored result is the one train() returns for the current inputs
trainedForCurrent ==
  svmResult = train(selectedDataset.data, selectedDataset.kernel, C, gamma,
                    polynomialDegree)

\* C30: whenever no training is due the stored result is the result of train()
\* for the current dataset, C, gamma and degree, so that a change of one of
\* them makes the training due; and whenever the training is due, eventually it
\* is done and the stored result is the result for the current inputs
ResultCatchesUp ==
  /\ [](~effectDue => trainedForCurrent)
  /\ effectDue ~> (~effectDue /\ trainedForCurrent)

====
